---- MODULE Spec2Model ----
(***************************************************************************)
(* A model of the write and read pipeline of one PLFS-IO directory         *)
(* partition of deltafs: WriteBuffer, LogSink, TableLogger, PlfsIoLogger   *)
(* (foreground calls and the background compaction) and PlfsIoReader, as   *)
(* written in src/src/libdeltafs/deltafs_plfsio_internal.cc and            *)
(* src/src/libdeltafs/deltafs_plfsio_xio.h.                                *)
(*                                                                         *)
(* Keys are one-byte strings, written as the integers 1..MaxKey; 0 is the  *)
(* empty string.  The value of the i-th accepted Add is the one-byte       *)
(* string i, so every value identifies the Add that brought it.  Byte      *)
(* strings that are encodings are kept structured (a block is the sequence *)
(* of its entries together with its size in bytes); the logs record the    *)
(* offset and the length of everything written so that the reader finds a  *)
(* block only through the offset and size stored in a handle.              *)
(***************************************************************************)
EXTENDS Integers, Sequences, FiniteSets, TLC

\* ------------------------------------------------------------------ bounds
MaxKey == 2
MaxAdds == 3
MaxEpochCalls == 1
MaxFinishCalls == 2
MaxLwrites == 3
MaxFilterBytes == 4
MaxSinkCalls == 4
MaxWrite == 2

\* ------------------------------------------------------- program constants
kBlockTrailerSize == 5
kMaxEpoches == 2
kMaxTablesPerEpoch == 2
kEncodeLength == 32
kDataRestartInterval == 16
kIndexRestartInterval == 1
kEpochKeyLength == 9
kBloomSeedHi == 48287
kBloomSeedLo == 7476
kMinBloomBits == 64
kMaxProbes == 30

NULL == "NULL"
OK == "OK"
Keys == 1..MaxKey

VARIABLES
  options,        \* DirOptions, constant after construction
  logger,         \* PlfsIoLogger's flags and buffer pointers (protected by mu)
  buf,            \* the two WriteBuffers buf0 and buf1
  table_logger,   \* TableLogger's fields
  data_sink,      \* LogSink of the data log
  index_sink,     \* LogSink of the index log
  fg,             \* the foreground thread: the call it is in and where
  bg,             \* the compaction thread: position and captured locals
  hist,           \* history: what Add accepted and what reached the table logger
  aborted,        \* the process has died in a failed assert()
  bloom           \* a BloomBlock on its own with the keys added to it

vars ==
  <<options, logger, buf, table_logger, data_sink, index_sink, fg, bg, hist, aborted, bloom>>

\* ----------------------------------------------------------------- helpers
Max(a, b) == IF a >= b THEN a ELSE b
Min(a, b) == IF a <= b THEN a ELSE b
Pow2(n) == 2^n

\* The element of a one-element set.  The({ e(x) : x \in {v} }) is e(v), with
\* v evaluated once however often e refers to x.
The(S) == CHOOSE r \in S : TRUE
U16 == 65536

RECURSIVE SumLen(_)
SumLen(s) == IF s = <<>> THEN 0 ELSE Head(s).len + SumLen(Tail(s))

\* VarintLength(v): bytes of the LEB128 encoding of v.
VarintLength(v) == IF v < 128 THEN 1 ELSE IF v < 16384 THEN 2 ELSE IF v < 2097152 THEN 3 ELSE 4

\* Bytes of a length-prefixed one-byte (or empty) string.
LengthPrefixedSize(k) == IF k = 0 THEN 1 ELSE 2

\* A successor that stays at the key.
SuccessorBelow(k) == IF k = 0 THEN 0 ELSE k - 1

\* BytewiseComparator()->FindShortSuccessor on a one-byte key: the byte is
\* incremented; the empty string is left alone.
FindShortSuccessor(k) == IF k = 0 THEN 0 ELSE k + 1

\* A separator that goes up to limit.
SeparatorAtLimit(start, limit) ==
  IF start # 0 /\ limit # 0 /\ start < limit THEN limit ELSE start

\* BytewiseComparator()->FindShortestSeparator(&start, limit) on one-byte
\* keys: start is incremented when the result stays below limit.
FindShortestSeparator(start, limit) ==
  IF start # 0 /\ limit # 0 /\ start + 1 < limit THEN start + 1 ELSE start

\* BlockHandle::EncodeTo(dst) appends varint(offset) varint(size) to dst; an
\* encoded string of handles is the sequence of the handles in it.
HandleEncodeTo(handle, dst) == Append(dst, handle)
\* BlockHandle::DecodeFrom(&input) reads the first handle of input.
HandleDecodeFrom(input) == Head(input)
HandleBytes(h) == VarintLength(h.offset) + VarintLength(h.size)
RECURSIVE HandlesBytes(_)
HandlesBytes(enc) == IF enc = <<>> THEN 0 ELSE HandleBytes(Head(enc)) + HandlesBytes(Tail(enc))

\* TableHandle::EncodeTo: smallest_key, largest_key (length prefixed),
\* filter_offset, filter_size, then the index block's handle.
TableHandleBytes(h) ==
  LengthPrefixedSize(h.smallest_key) + LengthPrefixedSize(h.largest_key)
    + VarintLength(h.filter_offset) + VarintLength(h.filter_size)
    + VarintLength(h.offset) + VarintLength(h.size)

\* ---------------------------------------------------------- block builder
\* One entry of a block: three varint lengths, the key bytes not shared with
\* the previous key, the value bytes.  A one-byte key shares its byte with
\* the previous key exactly when the two are equal and the entry does not
\* start a restart interval.
RECURSIVE DataEntriesBytes(_, _, _)
DataEntriesBytes(entries, prev, n) ==
  IF entries = <<>> THEN 0
  ELSE LET e == Head(entries)
           shared == IF n % kDataRestartInterval # 0 /\ e.key = prev THEN 1 ELSE 0
       IN 3 + (1 - shared) + 1 + DataEntriesBytes(Tail(entries), e.key, n + 1)

NumRestarts(n, interval) == IF n = 0 THEN 1 ELSE (n + interval - 1) \div interval

\* BlockBuilder::CurrentSizeEstimate of the data block being built, which is
\* also the size of its contents once finished.
DataBlockSize(entries) ==
  DataEntriesBytes(entries, 0, 0) + 4 * NumRestarts(Len(entries), kDataRestartInterval) + 4

RECURSIVE IndexEntriesBytes(_)
IndexEntriesBytes(entries) ==
  IF entries = <<>> THEN 0
  ELSE 3 + LengthPrefixedSize(Head(entries).key) - 1 + HandlesBytes(Head(entries).value)
         + IndexEntriesBytes(Tail(entries))

IndexBlockSize(entries) ==
  IndexEntriesBytes(entries) + 4 * NumRestarts(Len(entries), kIndexRestartInterval) + 4

RECURSIVE MetaEntriesBytes(_)
MetaEntriesBytes(entries) ==
  IF entries = <<>> THEN 0
  ELSE 3 + kEpochKeyLength + TableHandleBytes(Head(entries).handle)
         + MetaEntriesBytes(Tail(entries))

MetaBlockSize(entries) ==
  MetaEntriesBytes(entries) + 4 * NumRestarts(Len(entries), kIndexRestartInterval) + 4

\* ------------------------------------------------------------ Bloom filter
\* A uint32_t is kept as its two 16-bit halves <<hi, lo>>.
\* Hash(data, n, seed) of pdlfs-common for a one-byte key, kept as a 32-bit
\* mix of the key and the seed 0xbc9f1d34.
BloomHash(key) ==
  <<(kBloomSeedHi + key * 40503) % U16, (kBloomSeedLo + key * 31153) % U16>>

\* h + delta in uint32_t
WordAdd(h, delta) ==
  LET lo == h[2] + delta[2]
  IN <<(h[1] + delta[1] + lo \div U16) % U16, lo % U16>>

\* (h >> 17) | (h << 15)
RotateRight17(h) ==
  <<(h[1] % 2) * 32768 + h[2] \div 2, (h[2] % 2) * 32768 + h[1] \div 2>>

\* h % bits
WordMod(h, bits) == ((h[1] % bits) * (U16 % bits) + h[2]) % bits

RECURSIVE BloomProbes(_, _, _, _)
BloomProbes(h, delta, bits, j) ==
  IF j = 0 THEN {}
  ELSE {WordMod(h, bits)} \cup BloomProbes(WordAdd(h, delta), delta, bits, j - 1)

\* A BloomBlock that counts the byte holding k among its filter bits.
BloomBlockCountsProbeByte(bits_per_key, size) ==
  [space |-> {}, size |-> size, bits |-> 8 * (size + 1),
   k |-> Min(kMaxProbes, Max(1, (bits_per_key * 69) \div 100))]

\* A BloomBlock that rounds bits_per_key * 0.69 to the nearest number of
\* probes.
BloomBlockRoundsProbes(bits_per_key, size) ==
  [space |-> {}, size |-> size, bits |-> 8 * size,
   k |-> Min(kMaxProbes, Max(1, (bits_per_key * 69 + 50) \div 100))]

\* BloomBlock::BloomBlock(bits_per_key, size)
NewBloomBlock(bits_per_key, size) ==
  [space |-> {}, size |-> size, bits |-> 8 * size,
   k |-> Min(kMaxProbes, Max(1, (bits_per_key * 69) \div 100))]

\* BloomBlock::AddKey
BloomAddKey(b, key) ==
  LET h == BloomHash(key)
  IN [b EXCEPT !.space = @ \cup BloomProbes(h, RotateRight17(h), b.bits, b.k)]

\* BloomBlock::Finish: the filter bytes followed by the byte k.
BloomFinish(b) == [len |-> b.size + 1, space |-> b.space, k |-> b.k]

BloomKeyMayMatch(key, input) ==
  IF input.len < 2 THEN TRUE
  ELSE IF input.k > kMaxProbes THEN TRUE
  ELSE LET h == BloomHash(key)
       IN BloomProbes(h, RotateRight17(h), (input.len - 1) * 8, input.k) \subseteq input.space

\* ------------------------------------------------------------ construction
\* PlfsIoLogger::PlfsIoLogger: table and filter sizes from the options.
bytes_per_entry(o) ==
  o.key_size + o.value_size + 4 + VarintLength(o.key_size) + VarintLength(o.value_size)

entries_per_tb(o) ==
  LET total_bits_per_entry == 8 * bytes_per_entry(o) + o.bf_bits_per_key
      n == (8 * o.memtable_buffer + total_bits_per_entry - 1) \div total_bits_per_entry
  IN (n \div Pow2(o.lg_parts)) \div 2

tb_bytes(o) == entries_per_tb(o) * bytes_per_entry(o)

bf_bytes(o) ==
  LET raw == entries_per_tb(o) * o.bf_bits_per_key
      bf_bits == IF raw > 0 /\ raw < kMinBloomBits THEN kMinBloomBits ELSE raw
  IN (bf_bits + 7) \div 8

\* bf_bits_ at the end of the constructor: bf_bytes_ * 8.
bf_bits(o) == bf_bytes(o) * 8

\* ------------------------------------------------------------ WriteBuffer
\* WriteBuffer::CurrentBufferSize: bytes of the arena, two length-prefixed
\* one-byte strings per entry.
CurrentBufferSize(b) == 4 * Len(b.entries)

WriteBufferAdd(b, key, value) == [b EXCEPT !.entries = Append(@, [key |-> key, value |-> value])]

WriteBufferReset == [entries |-> <<>>, finished |-> FALSE]

IsPermutation(p, n) == \A i \in 1..n : \E j \in 1..n : p[j] = i

\* A WriteBuffer::Finish that leaves the entries in insertion order.
UnsortedArrangement(entries) == {entries}

\* WriteBuffer::Finish sorts the offsets by key with std::sort, which leaves
\* the order of equal keys unspecified: every nondescending arrangement of
\* the entries is a possible outcome.
SortedArrangements(entries) ==
  LET n == Len(entries)
  IN { [i \in 1..n |-> entries[p[i]]] :
         p \in { q \in [1..n -> 1..n] :
                   /\ IsPermutation(q, n)
                   /\ \A i \in 1..(n - 1) : entries[q[i]].key <= entries[q[i + 1]].key } }

\* ---------------------------------------------------------------- LogSink
\* What a log holds: every piece written, with its logical offset.  A piece
\* is [len, size, kind, body]: len bytes on the log, of which the first size
\* are the block contents (the rest is the trailer or padding).
RECURSIVE Place(_, _)
Place(pieces, base) ==
  IF pieces = <<>> THEN <<>>
  ELSE <<[off |-> base, len |-> Head(pieces).len, size |-> Head(pieces).size,
          kind |-> Head(pieces).kind, body |-> Head(pieces).body]>>
         \o Place(Tail(pieces), base + Head(pieces).len)

\* The file under the log comes with the faults of its storage, which a
\* reader meets: flipped holds the offsets of the bytes that have changed on
\* storage, unreadable the offsets at which a Read fails.  mu is the mutex
\* of LogOptions the sink was configured with (NULL: none).
NewLogSink ==
  [offset |-> 0, file |-> TRUE, log |-> <<>>, lwrites |-> 0, flipped |-> {},
   unreadable |-> {}, mu |-> NULL]

\* LogSink::Ltell
Ltell(sink) == sink.offset

\* An Lwrite that does not look at file_.
LwriteAfterClose(sink, pieces, io_error) ==
  IF io_error
    THEN [sink |-> [sink EXCEPT !.lwrites = @ + 1], status |-> "IOError"]
  ELSE [sink |-> [sink EXCEPT !.lwrites = @ + 1,
                              !.offset = @ + SumLen(pieces),
                              !.log = @ \o Place(pieces, sink.offset)],
        status |-> OK]

\* An Lwrite that counts the bytes of a failed Append or Flush.
LwriteCountsFailed(sink, pieces, io_error) ==
  IF ~sink.file
    THEN [sink |-> [sink EXCEPT !.lwrites = @ + 1], status |-> "AssertionFailed"]
  ELSE IF io_error
    THEN [sink |-> [sink EXCEPT !.lwrites = @ + 1, !.offset = @ + SumLen(pieces)],
          status |-> "IOError"]
  ELSE [sink |-> [sink EXCEPT !.lwrites = @ + 1,
                              !.offset = @ + SumLen(pieces),
                              !.log = @ \o Place(pieces, sink.offset)],
        status |-> OK]

\* LogSink::Lwrite(data).  io_error says that file_->Append or file_->Flush
\* fails on this call.
Lwrite(sink, pieces, io_error) ==
  IF ~sink.file
    THEN [sink |-> [sink EXCEPT !.lwrites = @ + 1], status |-> "AssertionFailed"]
  ELSE IF io_error
    THEN [sink |-> [sink EXCEPT !.lwrites = @ + 1], status |-> "IOError"]
  ELSE [sink |-> [sink EXCEPT !.lwrites = @ + 1,
                              !.offset = @ + SumLen(pieces),
                              !.log = @ \o Place(pieces, sink.offset)],
        status |-> OK]

\* LogSink::Lsync.  io_error says that file_->Sync fails.
Lsync(sink, io_error) ==
  IF sink.file /\ io_error THEN [sink |-> sink, status |-> "IOError"]
  ELSE [sink |-> sink, status |-> OK]

\* LogSink::Lclose(sync = false): the log accepts no further writes (file_
\* is NULL); io_error says that closing the file fails.
Lclose(sink, io_error) ==
  [sink |-> [sink EXCEPT !.file = FALSE],
   status |-> IF sink.file /\ io_error THEN "IOError" ELSE OK]

\* ------------------------------------------------------------ TableLogger
\* The operations of TableLogger work on w = [t, data, index, fuse, broke]:
\* the table logger, its two sinks, the number of Lwrite calls until one
\* fails with an I/O error (0: none fails), and whether an assert() of the
\* source has been evaluated to false.
NoBlockHandle == [offset |-> 0, size |-> 0]
NoTableHandle ==
  [smallest_key |-> 0, largest_key |-> 0, filter_offset |-> 0, filter_size |-> 0,
   offset |-> 0, size |-> 0]

\* TableLogger::TableLogger
NewTableLogger ==
  [status |-> OK,
   num_uncommitted_index |-> 0, num_uncommitted_data |-> 0,
   data_block |-> <<>>, buffer_store |-> <<>>,
   index_block |-> <<>>, meta_block |-> <<>>,
   uncommitted_indexes |-> <<>>,
   pending_index_entry |-> FALSE, pending_index_handle |-> NoBlockHandle,
   pending_meta_entry |-> FALSE, pending_meta_handle |-> NoTableHandle,
   last_key |-> 0, smallest_key |-> 0, largest_key |-> 0,
   num_tables |-> 0, num_epochs |-> 0, finished |-> FALSE]

\* assert(cond)
Expect(w, cond) == IF cond THEN w ELSE [w EXCEPT !.broke = TRUE]

\* if (mu_ != NULL) mu_->AssertHeld() in LogSink::Ltell and LogSink::Lwrite
\* of an open log, for the thread that runs the table logger.
AssertHeld(w, which) ==
  IF w[which].file /\ w[which].mu # NULL /\ ~w.holds_mu
    THEN [w EXCEPT !.broke = TRUE, !.unheld = TRUE]
    ELSE w

\* status_ = sink->Lwrite(data); the sink->Ltell() of the table logger come
\* right before an Lwrite on the same sink or right after one that
\* returned OK, with the mutex as it is there.
SinkWrite(w, which, pieces) ==
  The({ [AssertHeld(w, which) EXCEPT ![which] = r.sink, !.t.status = r.status,
                                     !.fuse = IF @ > 0 THEN @ - 1 ELSE 0]
          : r \in {Lwrite(w[which], pieces, w.fuse = 1)} })

\* data_block_.buffer_store()->size(): the finalized blocks not yet
\* committed and the bytes of the block being built, which share one buffer.
BufferStoreSize(t) == SumLen(t.buffer_store) + DataEntriesBytes(t.data_block, 0, 0)

\* The bytes Commit hands to the data log.
BufferStorePieces(t) ==
  t.buffer_store \o
    (IF t.data_block = <<>> THEN <<>>
     ELSE <<[len |-> DataEntriesBytes(t.data_block, 0, 0), size |-> 0,
             kind |-> "partial", body |-> t.data_block]>>)

\* The loop of TableLogger::Commit over uncommitted_indexes_: handle_encoding
\* is declared ahead of the loop and every handle.EncodeTo appends to it.
RECURSIVE CommitIndexEntries(_, _, _, _)
CommitIndexEntries(input, offset, handle_encoding, index_block) ==
  IF input = <<>> THEN index_block
  ELSE CommitIndexEntries(
         Tail(input), offset,
         HandleEncodeTo([offset |-> offset + Head(input).handle.offset,
                         size |-> Head(input).handle.size], handle_encoding),
         Append(index_block,
                [key |-> Head(input).key,
                 value |-> HandleEncodeTo([offset |-> offset + Head(input).handle.offset,
                                           size |-> Head(input).handle.size],
                                          handle_encoding)]))

\* TableLogger::Commit
Commit(w0) ==
  The({ IF BufferStoreSize(w.t) = 0 THEN w
        ELSE IF w.t.status # OK THEN w
        ELSE The({ IF b.t.status # OK THEN b
                   ELSE [Expect(b, Len(b.t.uncommitted_indexes)
                                       = b.t.num_uncommitted_index) EXCEPT
                           !.t.index_block =
                              CommitIndexEntries(b.t.uncommitted_indexes, Ltell(w.data),
                                                 <<>>, @),
                           !.t.num_uncommitted_data = 0,
                           !.t.num_uncommitted_index = 0,
                           !.t.uncommitted_indexes = <<>>,
                           !.t.buffer_store = <<>>,
                           !.t.data_block = <<>>]
                     : b \in {SinkWrite(Expect(w, w.t.num_uncommitted_data
                                                    = w.t.num_uncommitted_index),
                                        "data", BufferStorePieces(w.t))} })
          : w \in {Expect(w0, ~w0.t.finished)} })

\* A Flush that leaves num_uncommitted_data as it is.
FlushUncounted(w0) ==
  The({ IF w.t.data_block = <<>> THEN w
        ELSE IF w.t.status # OK THEN w
        ELSE The({ [Expect(w, ~w.t.pending_index_entry) EXCEPT
                      !.t.buffer_store =
                         Append(@, [len |-> IF options.block_padding
                                              THEN options.block_size
                                              ELSE size + kBlockTrailerSize,
                                    size |-> size, kind |-> "data",
                                    body |-> w.t.data_block]),
                      !.t.data_block = <<>>,
                      !.t.pending_index_handle =
                         [offset |-> SumLen(w.t.buffer_store), size |-> size],
                      !.t.pending_index_entry = TRUE]
                     : size \in {DataBlockSize(w.t.data_block)} })
          : w \in {Expect(w0, ~w0.t.finished)} })

\* TableLogger::Flush.  The block's offset in the buffer is
\* buffer_store()->size() - final_size, taken after Finalize.
Flush(w0) ==
  The({ IF w.t.data_block = <<>> THEN w
        ELSE IF w.t.status # OK THEN w
        ELSE The({ [Expect(w, ~w.t.pending_index_entry) EXCEPT
                      !.t.buffer_store =
                         Append(@, [len |-> IF options.block_padding
                                              THEN options.block_size
                                              ELSE size + kBlockTrailerSize,
                                    size |-> size, kind |-> "data",
                                    body |-> w.t.data_block]),
                      !.t.data_block = <<>>,
                      !.t.pending_index_handle =
                         [offset |-> SumLen(w.t.buffer_store), size |-> size],
                      !.t.pending_index_entry = TRUE,
                      !.t.num_uncommitted_data = @ + 1]
                     : size \in {DataBlockSize(w.t.data_block)} })
          : w \in {Expect(w0, ~w0.t.finished)} })

\* static_cast<uint64_t>(options_.block_size * options_.block_util), with
\* block_util given in percent.
FlushThreshold == (options.block_size * options.block_util) \div 100

\* TableLogger::Add, the asserts on the order of keys.
AddAsserts(w, key) ==
  IF w.t.last_key = 0 THEN w
  ELSE IF options.unique_keys
    THEN Expect(Expect(w, key >= w.t.last_key), key # w.t.last_key)
    ELSE Expect(w, key >= w.t.last_key)

\* The index entry of the last flushed block, added by TableLogger::Add and
\* TableLogger::EndTable under the key last_key_ has been changed to.
IndexEntry(w, key) ==
  IF w.t.pending_index_entry
    THEN [w EXCEPT !.t.last_key = key,
                   !.t.uncommitted_indexes =
                      Append(@, [key |-> key, handle |-> w.t.pending_index_handle]),
                   !.t.pending_index_entry = FALSE,
                   !.t.num_uncommitted_index = @ + 1]
    ELSE w

\* TableLogger::Add
TableLoggerAdd(w0, key, value) ==
  The({ IF w1.t.status # OK THEN w1
        ELSE The({ IF DataBlockSize(w6.t.data_block) + kBlockTrailerSize >= FlushThreshold
                     THEN Flush(w6) ELSE w6
                     : w6 \in { [w5 EXCEPT !.t.last_key = key,
                                           !.t.data_block =
                                              Append(@, [key |-> key, value |-> value])]
                     : w5 \in { IF BufferStoreSize(w4.t) >= options.block_buffer
                                  THEN Commit(w4) ELSE w4
                     : w4 \in { IndexEntry(w3, FindShortestSeparator(w3.t.last_key, key))
                     : w3 \in { [w2 EXCEPT !.t.smallest_key = IF @ = 0 THEN key ELSE @,
                                           !.t.largest_key = key]
                     : w2 \in {AddAsserts(w1, key)} } } } } })
          : w1 \in {Expect(Expect(w0, ~w0.t.finished), key # 0)} })

\* EpochKey(epoch, table): the meta-block key, ordered as the pair.
EpochKey(epoch, table) == <<epoch, table>>

\* An EndTable whose cap admits one table more.
EndTableMetaOneMore(w) ==
  The({ IF w8.t.status = OK
          THEN [w8 EXCEPT !.t.smallest_key = 0, !.t.largest_key = 0,
                          !.t.last_key = 0, !.t.num_tables = @ + 1]
          ELSE w8
          : w8 \in {
              IF w.t.num_tables > kMaxTablesPerEpoch
                THEN [w EXCEPT !.t.status = "AssertionFailed"]
              ELSE IF w.t.pending_meta_entry
                THEN The({ [w EXCEPT
                              !.t.largest_key = h.largest_key,
                              !.t.pending_meta_handle = h,
                              !.t.meta_block =
                                 Append(@, [key |-> EpochKey(w.t.num_epochs, w.t.num_tables),
                                            handle |-> h]),
                              !.t.pending_meta_entry = FALSE]
                             : h \in {[w.t.pending_meta_handle EXCEPT
                                         !.smallest_key = w.t.smallest_key,
                                         !.largest_key =
                                            FindShortSuccessor(w.t.largest_key)]} })
              ELSE w } })

\* An EndTable that counts two tables for the one it records.
EndTableMetaSkipsNumber(w) ==
  The({ IF w8.t.status = OK
          THEN [w8 EXCEPT !.t.smallest_key = 0, !.t.largest_key = 0,
                          !.t.last_key = 0, !.t.num_tables = @ + 2]
          ELSE w8
          : w8 \in {
              IF w.t.num_tables >= kMaxTablesPerEpoch
                THEN [w EXCEPT !.t.status = "AssertionFailed"]
              ELSE IF w.t.pending_meta_entry
                THEN The({ [w EXCEPT
                              !.t.largest_key = h.largest_key,
                              !.t.pending_meta_handle = h,
                              !.t.meta_block =
                                 Append(@, [key |-> EpochKey(w.t.num_epochs, w.t.num_tables),
                                            handle |-> h]),
                              !.t.pending_meta_entry = FALSE]
                             : h \in {[w.t.pending_meta_handle EXCEPT
                                         !.smallest_key = w.t.smallest_key,
                                         !.largest_key =
                                            FindShortSuccessor(w.t.largest_key)]} })
              ELSE w } })

\* TableLogger::EndTable from the check of kMaxTablesPerEpoch to its end.
EndTableMeta(w) ==
  The({ IF w8.t.status = OK
          THEN [w8 EXCEPT !.t.smallest_key = 0, !.t.largest_key = 0,
                          !.t.last_key = 0, !.t.num_tables = @ + 1]
          ELSE w8
          : w8 \in {
              IF w.t.num_tables >= kMaxTablesPerEpoch
                THEN [w EXCEPT !.t.status = "AssertionFailed"]
              ELSE IF w.t.pending_meta_entry
                THEN The({ [w EXCEPT
                              !.t.largest_key = h.largest_key,
                              !.t.pending_meta_handle = h,
                              !.t.meta_block =
                                 Append(@, [key |-> EpochKey(w.t.num_epochs, w.t.num_tables),
                                            handle |-> h]),
                              !.t.pending_meta_entry = FALSE]
                             : h \in {[w.t.pending_meta_handle EXCEPT
                                         !.smallest_key = w.t.smallest_key,
                                         !.largest_key =
                                            FindShortSuccessor(w.t.largest_key)]} })
              ELSE w } })

\* An EndTable that takes the end of the index block's payload for the
\* offset of the filter.
EndTableWriteNoTrailer(w3, filter_block) ==
  The({ IF w4.t.status # OK THEN w4
        ELSE The({ IF w5.t.status # OK THEN w5
                   ELSE EndTableMeta(
                          [Expect(w5, ~w5.t.pending_meta_entry) EXCEPT
                             !.t.index_block = <<>>,
                             !.t.pending_meta_handle =
                                [@ EXCEPT
                                   !.filter_offset = Ltell(w3.index)
                                                       + IndexBlockSize(w3.t.index_block),
                                   !.filter_size = IF filter_block = <<>> THEN 0
                                                   ELSE BloomFinish(Head(filter_block)).len,
                                   !.offset = Ltell(w3.index),
                                   !.size = IndexBlockSize(w3.t.index_block)],
                             !.t.pending_meta_entry = TRUE])
                     : w5 \in { IF filter_block = <<>> THEN w4
                                ELSE SinkWrite(w4, "index",
                                       <<[len |-> BloomFinish(Head(filter_block)).len
                                                    + kBlockTrailerSize,
                                          size |-> BloomFinish(Head(filter_block)).len,
                                          kind |-> "filter",
                                          body |-> BloomFinish(Head(filter_block))]>>) } })
          : w4 \in {SinkWrite(w3, "index",
                      <<[len |-> IndexBlockSize(w3.t.index_block) + kBlockTrailerSize,
                         size |-> IndexBlockSize(w3.t.index_block),
                         kind |-> "index", body |-> w3.t.index_block]>>)} })

\* TableLogger::EndTable from index_block_.Finish() on: the index block and
\* the filter go to the index log.  A BloomBlock* is the empty sequence
\* (NULL) or the one-element sequence of the block it points to.
EndTableWrite(w3, filter_block) ==
  The({ IF w4.t.status # OK THEN w4
        ELSE The({ IF w5.t.status # OK THEN w5
                   ELSE EndTableMeta(
                          [Expect(w5, ~w5.t.pending_meta_entry) EXCEPT
                             !.t.index_block = <<>>,
                             !.t.pending_meta_handle =
                                [@ EXCEPT
                                   !.filter_offset = Ltell(w4.index),
                                   !.filter_size = IF filter_block = <<>> THEN 0
                                                   ELSE BloomFinish(Head(filter_block)).len,
                                   !.offset = Ltell(w3.index),
                                   !.size = IndexBlockSize(w3.t.index_block)],
                             !.t.pending_meta_entry = TRUE])
                     : w5 \in { IF filter_block = <<>> THEN w4
                                ELSE SinkWrite(w4, "index",
                                       <<[len |-> BloomFinish(Head(filter_block)).len
                                                    + kBlockTrailerSize,
                                          size |-> BloomFinish(Head(filter_block)).len,
                                          kind |-> "filter",
                                          body |-> BloomFinish(Head(filter_block))]>>) } })
          : w4 \in {SinkWrite(w3, "index",
                      <<[len |-> IndexBlockSize(w3.t.index_block) + kBlockTrailerSize,
                         size |-> IndexBlockSize(w3.t.index_block),
                         kind |-> "index", body |-> w3.t.index_block]>>)} })

\* TableLogger::EndTable(filter_block)
EndTable(w0, filter_block) ==
  The({ IF w1.t.status # OK THEN w1
        ELSE The({ IF w3.t.status # OK THEN w3
                   ELSE IF w3.t.index_block = <<>> THEN w3
                   ELSE EndTableWrite(w3, filter_block)
                     : w3 \in { Commit(w2)
                     : w2 \in {IndexEntry(w1, FindShortSuccessor(w1.t.last_key))} } })
          : w1 \in { Flush(w) : w \in {Expect(w0, ~w0.t.finished)} } })

\* An EndEpoch without the test for an empty epoch.
EndEpochCountsEmpty(w0) ==
  The({ IF w.t.status # OK THEN w
        ELSE IF w.t.num_epochs >= kMaxEpoches
          THEN [w EXCEPT !.t.status = "AssertionFailed"]
        ELSE [w EXCEPT !.t.num_tables = 0, !.t.num_epochs = @ + 1]
          : w \in { EndTable(a, <<>>) : a \in {Expect(w0, ~w0.t.finished)} } })

\* An EndEpoch that seals the epoch and keeps its count of tables.
EndEpochKeepsTables(w0) ==
  The({ IF w.t.status # OK THEN w
        ELSE IF w.t.num_tables = 0 THEN w
        ELSE IF w.t.num_epochs >= kMaxEpoches
          THEN [w EXCEPT !.t.status = "AssertionFailed"]
        ELSE [w EXCEPT !.t.num_epochs = @ + 1]
          : w \in { EndTable(a, <<>>) : a \in {Expect(w0, ~w0.t.finished)} } })

\* TableLogger::EndEpoch
EndEpoch(w0) ==
  The({ IF w.t.status # OK THEN w
        ELSE IF w.t.num_tables = 0 THEN w
        ELSE IF w.t.num_epochs >= kMaxEpoches
          THEN [w EXCEPT !.t.status = "AssertionFailed"]
        ELSE [w EXCEPT !.t.num_tables = 0, !.t.num_epochs = @ + 1]
          : w \in { EndTable(a, <<>>) : a \in {Expect(w0, ~w0.t.finished)} } })

\* A padding computed as the overflow itself.
TailPaddingOverflow(tell, tail_size) == (tell + tail_size) % options.index_buffer

\* The padding TableLogger::Finish writes ahead of the footer: the number of
\* zero bytes, given the index log's offset and the footer's length.
TailPadding(tell, tail_size) ==
  IF (tell + tail_size) % options.index_buffer # 0
    THEN options.index_buffer - ((tell + tail_size) % options.index_buffer)
    ELSE 0

\* TableLogger::Finish from footer.EncodeTo(&tail) on: the padding, then
\* the footer.
FinishTail(w4, footer) ==
  The({ IF w5.t.status = OK
          THEN SinkWrite(w5, "index",
                 <<[len |-> kEncodeLength, size |-> kEncodeLength,
                    kind |-> "footer", body |-> footer]>>)
          ELSE w5
          : w5 \in { IF options.tail_padding
                        /\ TailPadding(Ltell(w4.index), kEncodeLength) # 0
                       THEN SinkWrite(w4, "index",
                              <<[len |-> TailPadding(Ltell(w4.index), kEncodeLength),
                                 size |-> TailPadding(Ltell(w4.index), kEncodeLength),
                                 kind |-> "padding", body |-> <<>>]>>)
                       ELSE w4 } })

\* A Finish that goes on to the meta-block whatever EndEpoch has left in
\* status_.
FinishUnchecked(w0) ==
  The({ The({ IF w4.t.status # OK THEN w4
              ELSE FinishTail(w4, [epoch_index_handle |->
                                      [offset |-> Ltell(w2.index),
                                       size |-> MetaBlockSize(w2.t.meta_block)],
                                   num_epoches |-> w4.t.num_epochs])
                : w4 \in {SinkWrite(Expect(w2, ~w2.t.pending_meta_entry), "index",
                            <<[len |-> MetaBlockSize(w2.t.meta_block) + kBlockTrailerSize,
                               size |-> MetaBlockSize(w2.t.meta_block),
                               kind |-> "meta", body |-> w2.t.meta_block]>>)} })
          : w2 \in { [w1 EXCEPT !.t.finished = TRUE]
          : w1 \in { EndEpoch(a) : a \in {Expect(w0, ~w0.t.finished)} } } })

\* TableLogger::Finish
TableLoggerFinish(w0) ==
  The({ IF w2.t.status # OK THEN w2
        ELSE The({ IF w4.t.status # OK THEN w4
                   ELSE FinishTail(w4, [epoch_index_handle |->
                                           [offset |-> Ltell(w2.index),
                                            size |-> MetaBlockSize(w2.t.meta_block)],
                                        num_epoches |-> w4.t.num_epochs])
                     : w4 \in {SinkWrite(Expect(w2, ~w2.t.pending_meta_entry), "index",
                                 <<[len |-> MetaBlockSize(w2.t.meta_block) + kBlockTrailerSize,
                                    size |-> MetaBlockSize(w2.t.meta_block),
                                    kind |-> "meta", body |-> w2.t.meta_block]>>)} })
          : w2 \in { [w1 EXCEPT !.t.finished = TRUE]
          : w1 \in { EndEpoch(a) : a \in {Expect(w0, ~w0.t.finished)} } } })

\* ----------------------------------------------------------- PlfsIoLogger
\* The options the model runs under.  key_size and value_size are the size
\* hints of DirOptions; block_util is in percent.
BaseOptions ==
  [non_blocking |-> FALSE, unique_keys |-> FALSE,
   bf_bits_per_key |-> 10, tail_padding |-> TRUE, index_buffer |-> 64,
   block_size |-> 18, block_util |-> 100, block_padding |-> FALSE, block_buffer |-> 64,
   memtable_buffer |-> 20, key_size |-> 1, value_size |-> 1, lg_parts |-> 0,
   verify_checksums |-> TRUE]

OptionSets ==
  { [BaseOptions EXCEPT !.non_blocking = nb, !.unique_keys = uk] :
      nb \in BOOLEAN, uk \in BOOLEAN }

\* A swap that stays on the buffer it comes from.
SameBuf(b) == b

OtherBuf(b) == IF b = "buf0" THEN "buf1" ELSE "buf0"

\* PlfsIoLogger::PlfsIoLogger
NewLogger ==
  [has_bg_compaction |-> FALSE, pending_epoch_flush |-> FALSE, pending_finish |-> FALSE,
   mem_buf |-> "buf0", imm_buf |-> NULL,
   imm_buf_is_epoch_flush |-> FALSE, imm_buf_is_finish |-> FALSE]

\* The state of a foreground call while it runs with mu held: the logger's
\* fields, Prepare's arguments flush and finish, the status to return, where
\* the call waits on bg_cv ("idle": it has returned), and how often it has
\* swapped buffers and dispatched BGWork.
CallState(lg, flush, finish) ==
  [logger |-> lg, flush |-> flush, finish |-> finish, status |-> OK, at |-> "idle",
   swaps |-> 0, scheduled |-> 0]

\* A MaybeScheduleCompaction that does not look at has_bg_compaction_.
ScheduleWhileRunning(p) ==
  IF p.logger.imm_buf = NULL THEN p
  ELSE [p EXCEPT !.logger.has_bg_compaction = TRUE, !.scheduled = @ + 1]

\* A MaybeScheduleCompaction that schedules although nothing waits.
ScheduleWithoutBuffer(p) ==
  IF p.logger.has_bg_compaction THEN p
  ELSE [p EXCEPT !.logger.has_bg_compaction = TRUE, !.scheduled = @ + 1]

\* PlfsIoLogger::MaybeScheduleCompaction
MaybeScheduleCompaction(p) ==
  IF p.logger.has_bg_compaction THEN p
  ELSE IF p.logger.imm_buf = NULL THEN p
  ELSE [p EXCEPT !.logger.has_bg_compaction = TRUE, !.scheduled = @ + 1]

RECURSIVE Prepare(_)
\* A Prepare that waits on bg_cv whatever non_blocking says.
PrepareWaits(p) ==
  IF table_logger.status # OK THEN [p EXCEPT !.status = table_logger.status]
  ELSE IF ~p.flush /\ CurrentBufferSize(buf[p.logger.mem_buf]) < tb_bytes(options) THEN p
  ELSE IF p.logger.imm_buf # NULL THEN [p EXCEPT !.at = "Prepare"]
  ELSE The({ Prepare(c)
               : c \in { [b EXCEPT !.logger.mem_buf = OtherBuf(p.logger.mem_buf)]
               : b \in { MaybeScheduleCompaction(a)
               : a \in {[p EXCEPT
                           !.logger.imm_buf = p.logger.mem_buf,
                           !.logger.imm_buf_is_epoch_flush = IF p.flush THEN TRUE ELSE @,
                           !.logger.imm_buf_is_finish = IF p.finish THEN TRUE ELSE @,
                           !.flush = FALSE, !.finish = FALSE, !.swaps = @ + 1]} } } })

\* PlfsIoLogger::Prepare(flush, finish): the loop, up to its return or to
\* bg_cv_->Wait().
Prepare(p) ==
  IF table_logger.status # OK THEN [p EXCEPT !.status = table_logger.status]
  ELSE IF ~p.flush /\ CurrentBufferSize(buf[p.logger.mem_buf]) < tb_bytes(options) THEN p
  ELSE IF p.logger.imm_buf # NULL
    THEN IF options.non_blocking THEN [p EXCEPT !.status = "BufferFull"]
         ELSE [p EXCEPT !.at = "Prepare"]
  ELSE The({ Prepare(c)
               : c \in { [b EXCEPT !.logger.mem_buf = OtherBuf(p.logger.mem_buf)]
               : b \in { MaybeScheduleCompaction(a)
               : a \in {[p EXCEPT
                           !.logger.imm_buf = p.logger.mem_buf,
                           !.logger.imm_buf_is_epoch_flush = IF p.flush THEN TRUE ELSE @,
                           !.logger.imm_buf_is_finish = IF p.finish THEN TRUE ELSE @,
                           !.flush = FALSE, !.finish = FALSE, !.swaps = @ + 1]} } } })

\* PlfsIoLogger::Finish, from the loop that follows a successful Prepare
\* (blocking mode): wait until both pending flags are clear.
FinishWaitPending(p) ==
  IF p.logger.pending_epoch_flush \/ p.logger.pending_finish
    THEN [p EXCEPT !.at = "FinishPending"] ELSE p

\* A Finish that waits for the pending flags in non-blocking mode too.
FinishAlwaysWaits(p) ==
  IF p.at # "idle" THEN p
  ELSE IF p.status # OK
    THEN [p EXCEPT !.logger.pending_epoch_flush = FALSE, !.logger.pending_finish = FALSE]
  ELSE FinishWaitPending(p)

\* A Finish that leaves its pending flags set when Prepare fails.
FinishKeepsPending(p) ==
  IF p.at # "idle" THEN p
  ELSE IF p.status # OK THEN p
  ELSE IF ~options.non_blocking THEN FinishWaitPending(p)
  ELSE p

\* PlfsIoLogger::Finish, from the return of Prepare.
FinishAfterPrepare(p) ==
  IF p.at # "idle" THEN p
  ELSE IF p.status # OK
    THEN [p EXCEPT !.logger.pending_epoch_flush = FALSE, !.logger.pending_finish = FALSE]
  ELSE IF ~options.non_blocking THEN FinishWaitPending(p)
  ELSE p

\* PlfsIoLogger::Finish(dry_run), from its first loop.
FinishCall(lg, dry_run) ==
  IF lg.pending_finish \/ lg.pending_epoch_flush \/ lg.imm_buf # NULL
    THEN IF dry_run \/ options.non_blocking
           THEN [CallState(lg, FALSE, FALSE) EXCEPT !.status = "BufferFull"]
           ELSE [CallState(lg, FALSE, FALSE) EXCEPT !.at = "FinishBusy"]
  ELSE IF dry_run
    THEN [CallState(lg, FALSE, FALSE) EXCEPT !.status = table_logger.status]
  ELSE The({ FinishAfterPrepare(p)
               : p \in {Prepare(CallState([lg EXCEPT !.pending_finish = TRUE,
                                                     !.pending_epoch_flush = TRUE],
                                          TRUE, TRUE))} })

\* A MakeEpoch that does not wait for pending_epoch_flush_.
MakeEpochReturnsPending(p) == p

\* PlfsIoLogger::MakeEpoch, from the loop that follows a successful Prepare.
MakeEpochWaitPending(p) ==
  IF p.logger.pending_epoch_flush THEN [p EXCEPT !.at = "MakeEpochPending"] ELSE p

\* A MakeEpoch that leaves pending_epoch_flush_ set when Prepare fails.
MakeEpochKeepsPending(p) ==
  IF p.at # "idle" THEN p
  ELSE IF p.status # OK THEN p
  ELSE IF ~options.non_blocking THEN MakeEpochWaitPending(p)
  ELSE p

\* PlfsIoLogger::MakeEpoch, from the return of Prepare.
MakeEpochAfterPrepare(p) ==
  IF p.at # "idle" THEN p
  ELSE IF p.status # OK THEN [p EXCEPT !.logger.pending_epoch_flush = FALSE]
  ELSE IF ~options.non_blocking THEN MakeEpochWaitPending(p)
  ELSE p

\* A MakeEpoch whose dry run goes on to Prepare.
MakeEpochDryRunFlushes(lg, dry_run) ==
  IF lg.pending_epoch_flush \/ lg.imm_buf # NULL
    THEN IF dry_run \/ options.non_blocking
           THEN [CallState(lg, FALSE, FALSE) EXCEPT !.status = "BufferFull"]
           ELSE [CallState(lg, FALSE, FALSE) EXCEPT !.at = "MakeEpochBusy"]
  ELSE The({ MakeEpochAfterPrepare(p)
               : p \in {Prepare(CallState([lg EXCEPT !.pending_epoch_flush = TRUE],
                                          TRUE, FALSE))} })

\* PlfsIoLogger::MakeEpoch(dry_run), from its first loop.
MakeEpochCall(lg, dry_run) ==
  IF lg.pending_epoch_flush \/ lg.imm_buf # NULL
    THEN IF dry_run \/ options.non_blocking
           THEN [CallState(lg, FALSE, FALSE) EXCEPT !.status = "BufferFull"]
           ELSE [CallState(lg, FALSE, FALSE) EXCEPT !.at = "MakeEpochBusy"]
  ELSE IF dry_run
    THEN [CallState(lg, FALSE, FALSE) EXCEPT !.status = table_logger.status]
  ELSE The({ MakeEpochAfterPrepare(p)
               : p \in {Prepare(CallState([lg EXCEPT !.pending_epoch_flush = TRUE],
                                          TRUE, FALSE))} })

\* PlfsIoLogger::Add, up to the return of Prepare.
AddCall(lg) == Prepare(CallState(lg, FALSE, FALSE))

\* A Wait that returns without looking at has_bg_compaction_.
WaitReturnsAtOnce(lg) == CallState(lg, FALSE, FALSE)

\* PlfsIoLogger::Wait and PlfsIoLogger::~PlfsIoLogger: the loop
\* while (has_bg_compaction_) bg_cv_->Wait(), up to its end or to the wait.
WaitCall(lg) ==
  IF lg.has_bg_compaction THEN [CallState(lg, FALSE, FALSE) EXCEPT !.at = "Wait"]
  ELSE CallState(lg, FALSE, FALSE)

\* A foreground call continues after bg_cv_->Wait() has returned, from the
\* loop it was waiting in.
Continue(lg) ==
  CASE fg.pc = "Wait" -> WaitCall(lg)
    [] fg.pc = "FinishBusy" -> FinishCall(lg, FALSE)
    [] fg.pc = "FinishPending" -> FinishWaitPending(CallState(lg, FALSE, FALSE))
    [] fg.pc = "MakeEpochBusy" -> MakeEpochCall(lg, FALSE)
    [] fg.pc = "MakeEpochPending" -> MakeEpochWaitPending(CallState(lg, FALSE, FALSE))
    [] fg.pc = "Prepare" /\ fg.op = "Add" -> Prepare(CallState(lg, fg.flush, fg.finish))
    [] fg.pc = "Prepare" /\ fg.op = "MakeEpoch" ->
         The({ MakeEpochAfterPrepare(p)
                 : p \in {Prepare(CallState(lg, fg.flush, fg.finish))} })
    [] fg.pc = "Prepare" /\ fg.op = "Finish" ->
         The({ FinishAfterPrepare(p)
                 : p \in {Prepare(CallState(lg, fg.flush, fg.finish))} })

Idle(op, dry_run, ret) ==
  [pc |-> IF op = "~PlfsIoLogger" THEN "destroyed" ELSE "idle", op |-> op, dry_run |-> dry_run, key |-> 0,
   flush |-> FALSE, finish |-> FALSE, ret |-> ret, signalled |-> FALSE]

\* The value the next accepted Add carries.
NextValue == Len(hist.accepted) + 1

\* The effect of a foreground call that ran to state r: it has returned
\* r.status (r.at = "idle") or waits on bg_cv at r.at.
Stored(op, r) == op = "Add" /\ r.at = "idle" /\ r.status = OK

Ran(op, dry_run, key, r) ==
     /\ logger' = r.logger
     /\ fg' = IF r.at = "idle" THEN Idle(op, dry_run, r.status)
              ELSE [pc |-> r.at, op |-> op, dry_run |-> dry_run, key |-> key,
                    flush |-> r.flush, finish |-> r.finish, ret |-> "none",
                    signalled |-> FALSE]
     /\ buf' = IF Stored(op, r)
                 THEN [buf EXCEPT ![r.logger.mem_buf] = WriteBufferAdd(@, key, NextValue)]
                 ELSE buf
     /\ bg' = IF r.scheduled > 0 THEN [bg EXCEPT !.pc = "scheduled"] ELSE bg
     /\ hist' = [hist EXCEPT
                   !.accepted = IF Stored(op, r)
                                  THEN Append(@, [key |-> key, value |-> NextValue,
                                                  gen |-> hist.gen])
                                  ELSE @,
                   !.gen = IF r.logger.imm_buf_is_epoch_flush
                                /\ ~logger.imm_buf_is_epoch_flush THEN @ + 1 ELSE @,
                   !.finishes = IF r.logger.imm_buf_is_finish
                                     /\ ~logger.imm_buf_is_finish THEN @ + 1 ELSE @]
     /\ UNCHANGED <<bloom, options, table_logger, data_sink, index_sink, aborted>>

\* ------------------------------------------------------ foreground actions
Add(key) ==
  /\ ~aborted /\ fg.pc = "idle"
  /\ Len(hist.accepted) < MaxAdds
  /\ \E r \in {AddCall(logger)} : Ran("Add", FALSE, key, r)

MakeEpoch(dry_run) ==
  /\ ~aborted /\ fg.pc = "idle"
  /\ dry_run \/ hist.gen - hist.finishes < MaxEpochCalls
  /\ \E r \in {MakeEpochCall(logger, dry_run)} : Ran("MakeEpoch", dry_run, 0, r)

Finish(dry_run) ==
  /\ ~aborted /\ fg.pc = "idle"
  /\ dry_run \/ hist.finishes < MaxFinishCalls
  /\ \E r \in {FinishCall(logger, dry_run)} : Ran("Finish", dry_run, 0, r)

\* The foreground thread is inside bg_cv_->Wait(): it neither has returned
\* (idle, destroyed) nor runs Close with mu released.
OnBgCv(pc) == pc \notin {"idle", "destroyed", "CloseIndex"}

\* bg_cv_->Wait() returns in the foreground thread after SignalAll.
Wakeup ==
  /\ ~aborted /\ OnBgCv(fg.pc) /\ fg.signalled
  /\ \E r \in {Continue(logger)} : Ran(fg.op, fg.dry_run, fg.key, r)

\* ------------------------------------------------------ compaction thread
IdleBG ==
  [pc |-> "idle", iter |-> <<>>,
   is_finish |-> FALSE, is_epoch_flush |-> FALSE,
   pending_finish |-> FALSE, pending_epoch_flush |-> FALSE]

\* The table logger runs on a thread that does not hold mu (the compaction
\* thread has released it); unheld says that a sink has been used without its
\* mutex held.
World(fuse) ==
  [t |-> table_logger, data |-> data_sink, index |-> index_sink, fuse |-> fuse,
   broke |-> FALSE, handed |-> <<>>, holds_mu |-> FALSE, unheld |-> FALSE]

\* The loop of CompactWriteBuffer over the sorted buffer: each key goes to
\* the filter and each entry to the table logger, until the table logger is
\* not OK.  c = [w, bloom_filter].
RECURSIVE CompactEntries(_, _)
CompactEntries(c, iter) ==
  IF iter = <<>> THEN c
  ELSE The({ IF next.w.t.status # OK THEN next ELSE CompactEntries(next, Tail(iter))
               : next \in {
                   [w |-> [w EXCEPT !.handed =
                              IF c.w.t.status = OK
                                THEN Append(@, [key |-> Head(iter).key,
                                                value |-> Head(iter).value,
                                                epoch |-> c.w.t.num_epochs,
                                                table |-> c.w.t.num_tables])
                                ELSE @],
                    bloom_filter |-> IF c.bloom_filter = <<>> THEN <<>>
                                     ELSE <<BloomAddKey(Head(c.bloom_filter),
                                                        Head(iter).key)>>]
                   : w \in {TableLoggerAdd(c.w, Head(iter).key, Head(iter).value)} } })

\* PlfsIoLogger::CompactWriteBuffer between mu_->Unlock() and mu_->Lock().
CompactBody(w, iter, is_epoch_flush, is_finish) ==
  The({ IF is_finish THEN TableLoggerFinish(c) ELSE c
          : c \in { IF is_epoch_flush THEN EndEpoch(b) ELSE b
          : b \in { IF a.w.t.status = OK THEN EndTable(a.w, a.bloom_filter) ELSE a.w
          : a \in {CompactEntries(
                     [w |-> w,
                      bloom_filter |->
                        IF options.bf_bits_per_key # 0 /\ bf_bytes(options) # 0
                          THEN <<NewBloomBlock(options.bf_bits_per_key, bf_bytes(options))>>
                          ELSE <<>>],
                     iter)} } } })

\* BGWork, DoCompaction and CompactWriteBuffer up to mu_->Unlock() and
\* buffer->Finish(): the flags are captured with mu held, then mu is
\* released and the buffer is sorted.
BGWork ==
  /\ ~aborted /\ bg.pc = "scheduled"
  /\ \E sorted \in SortedArrangements(buf[logger.imm_buf].entries) :
       /\ bg' = [pc |-> "compact", iter |-> sorted,
                 is_finish |-> logger.imm_buf_is_finish,
                 is_epoch_flush |-> logger.imm_buf_is_epoch_flush,
                 pending_finish |-> logger.pending_finish,
                 pending_epoch_flush |-> logger.pending_epoch_flush]
       /\ buf' = [buf EXCEPT ![logger.imm_buf].finished = TRUE]
  /\ UNCHANGED <<bloom, options, logger, table_logger, data_sink, index_sink, fg, hist,
                 aborted>>

\* The body of CompactWriteBuffer, run without mu.  fuse says which of its
\* Lwrite calls (if any) meets an I/O error.  An assert() that fails ends
\* the process when the build has asserts; under NDEBUG it is skipped.
CompactWriteBuffer ==
  /\ ~aborted /\ bg.pc = "compact"
  /\ \E fuse \in 0..MaxLwrites :
       \E w \in {CompactBody(World(fuse), bg.iter, bg.is_epoch_flush, bg.is_finish)} :
          \/ /\ w.broke /\ ~hist.assert_failed
             /\ aborted' = TRUE
             /\ UNCHANGED <<bloom, options, logger, buf, table_logger, data_sink, index_sink,
                            fg, bg, hist>>
          \/ /\ table_logger' = w.t
             /\ data_sink' = w.data
             /\ index_sink' = w.index
             /\ bg' = [bg EXCEPT !.pc = "lock"]
             /\ hist' = [hist EXCEPT !.handed = @ \o w.handed,
                                     !.assert_failed = @ \/ w.broke,
                                     !.unheld = @ \/ w.unheld]
             /\ UNCHANGED <<bloom, options, logger, buf, fg, aborted>>

\* The end of CompactWriteBuffer and of DoCompaction, with mu held again.
DoCompaction ==
  /\ ~aborted /\ bg.pc = "lock"
  /\ LET lg1 == [logger EXCEPT
                   !.pending_epoch_flush =
                      IF bg.is_epoch_flush /\ bg.pending_epoch_flush THEN FALSE ELSE @,
                   !.pending_finish =
                      IF bg.is_finish /\ bg.pending_finish THEN FALSE ELSE @]
         lg2 == [lg1 EXCEPT !.imm_buf_is_epoch_flush = FALSE,
                            !.imm_buf_is_finish = FALSE,
                            !.imm_buf = NULL,
                            !.has_bg_compaction = FALSE]
         p == MaybeScheduleCompaction(CallState(lg2, FALSE, FALSE))
     IN /\ buf' = [buf EXCEPT ![logger.imm_buf] = WriteBufferReset]
        /\ logger' = p.logger
        /\ bg' = IF p.scheduled > 0 THEN [IdleBG EXCEPT !.pc = "scheduled"] ELSE IdleBG
        /\ fg' = IF OnBgCv(fg.pc) THEN [fg EXCEPT !.signalled = TRUE] ELSE fg
  /\ UNCHANGED <<bloom, options, table_logger, data_sink, index_sink, hist, aborted>>

\* ------------------------------------------------------------ PlfsIoReader
\* The reader works on the two logs as the sinks have written them.
Corruption == "Corruption"

\* ReadBlock(file, options, handle, &contents) with checksums: file->Read
\* of handle.size() + kBlockTrailerSize bytes at handle.offset() may fail;
\* fewer bytes than asked for are a truncated block; with verify_checksums
\* the bytes must carry the checksum of a block, which they do exactly when a
\* block of that size was written at that offset and none of its bytes has
\* changed since.
ReadBlock(sink, handle) ==
  LET m == handle.size + kBlockTrailerSize
      bytes == handle.offset..(handle.offset + m - 1)
      hits == { i \in 1..Len(sink.log) :
                  /\ sink.log[i].off = handle.offset
                  /\ sink.log[i].size = handle.size
                  /\ sink.log[i].len >= m
                  /\ sink.log[i].kind \in {"data", "index", "filter", "meta"} }
  IN IF bytes \cap sink.unreadable # {}
       THEN [status |-> "IOError", data |-> <<>>]
     ELSE IF handle.offset + m > sink.offset
       THEN [status |-> Corruption, data |-> <<>>]
     ELSE IF options.verify_checksums /\ (hits = {} \/ bytes \cap sink.flipped # {})
       THEN [status |-> Corruption, data |-> <<>>]
     ELSE [status |-> OK, data |-> sink.log[CHOOSE i \in hits : TRUE].body]

\* Iterator::Seek(target) on a block, and the loop from SeekToFirst() that
\* skips the keys below target: the position of the first entry whose key
\* is not below target, Len(entries) + 1 when there is none (not Valid()).
Seek(entries, target) ==
  LET at == { i \in 1..Len(entries) : entries[i].key >= target }
  IN IF at = {} THEN Len(entries) + 1 ELSE CHOOSE i \in at : \A j \in at : i <= j

\* A scan of the data block that takes the entry it is positioned at for a
\* match.
BlockScanAnyKey(entries, i, key, r) ==
  IF r.eok \/ i > Len(entries) THEN r
  ELSE [r EXCEPT !.dst = Append(@, entries[i].value), !.found = TRUE, !.eok = TRUE]

\* The loop of PlfsIoReader::Get(key, BlockHandle, saver, arg, eok) over the
\* data block from position i.  r = [status, dst, found, eok].
RECURSIVE BlockScan(_, _, _, _)
BlockScan(entries, i, key, r) ==
  IF r.eok \/ i > Len(entries) THEN r
  ELSE IF entries[i].key = key
    THEN BlockScan(entries, i + 1, key,
                   [r EXCEPT !.dst = Append(@, entries[i].value), !.found = TRUE,
                             !.eok = options.unique_keys])
  ELSE BlockScan(entries, i + 1, key, [r EXCEPT !.eok = TRUE])

\* A Get on a data block that takes a block it cannot read for an empty one.
BlockGetSkipsUnread(data, key, handle, r) ==
  The({ IF contents.status # OK THEN [r EXCEPT !.eok = FALSE]
        ELSE BlockScan(contents.data, Seek(contents.data, key), key,
                       [r EXCEPT !.eok = FALSE])
          : contents \in {ReadBlock(data, handle)} })

\* PlfsIoReader::Get(key, BlockHandle, saver, arg, eok)
BlockGet(data, key, handle, r) ==
  LET contents == ReadBlock(data, handle)
  IN IF contents.status # OK THEN [r EXCEPT !.status = contents.status, !.eok = FALSE]
     ELSE BlockScan(contents.data, Seek(contents.data, key), key, [r EXCEPT !.eok = FALSE])

\* PlfsIoReader::KeyMayMatch(key, BlockHandle)
KeyMayMatch(index, key, handle) ==
  LET contents == ReadBlock(index, handle)
  IN IF contents.status = OK THEN BloomKeyMayMatch(key, contents.data) ELSE TRUE

\* The loop of PlfsIoReader::Get(key, TableHandle, saver, arg) over the
\* index block from position i.
RECURSIVE IndexScan(_, _, _, _, _)
IndexScan(data, entries, i, key, r) ==
  IF r.status # OK \/ r.eok \/ i > Len(entries) THEN r
  ELSE IndexScan(data, entries, i + 1, key,
                 BlockGet(data, key, HandleDecodeFrom(entries[i].value), r))

\* PlfsIoReader::Get(key, TableHandle, saver, arg)
TableGet(data, index, key, handle, r) ==
  IF key < handle.smallest_key \/ key > handle.largest_key THEN r
  ELSE IF handle.filter_size # 0
          /\ ~KeyMayMatch(index, key, [offset |-> handle.filter_offset,
                                       size |-> handle.filter_size])
    THEN r
  ELSE LET contents == ReadBlock(index, [offset |-> handle.offset, size |-> handle.size])
       IN IF contents.status # OK THEN [r EXCEPT !.status = contents.status]
          ELSE IndexScan(data, contents.data, Seek(contents.data, key), key,
                         [r EXCEPT !.eok = FALSE])

\* Iterator::Seek(EpochKey(epoch, table)) on the meta-block.
EpochKeyLess(a, b) == a[1] < b[1] \/ (a[1] = b[1] /\ a[2] < b[2])
SeekEpoch(entries, target) ==
  LET at == { i \in 1..Len(entries) : ~EpochKeyLess(entries[i].key, target) }
  IN IF at = {} THEN Len(entries) + 1 ELSE CHOOSE i \in at : \A j \in at : i <= j

\* The loop of PlfsIoReader::Get(key, epoch, dst).  iter is the position of
\* epoch_iter_ (0 or Len + 1: not Valid()); r = [status, dst, iter].
RECURSIVE EpochScan(_, _, _, _, _, _)
EpochScan(data, index, reader, key, at, r) ==
  LET entries == reader.epoch_index
      valid(i) == i >= 1 /\ i <= Len(entries)
      epoch_key == EpochKey(at.epoch, at.table)
      iter == IF ~valid(r.iter) \/ entries[r.iter].key # epoch_key
                THEN SeekEpoch(entries, epoch_key) ELSE r.iter
  IN IF r.status # OK THEN r
     ELSE IF ~valid(iter) \/ entries[iter].key # epoch_key THEN [r EXCEPT !.iter = iter]
     ELSE LET state == TableGet(data, index, key, entries[iter].handle,
                                [status |-> OK, dst |-> r.dst, found |-> FALSE,
                                 eok |-> FALSE])
          IN IF state.status = OK /\ state.found /\ options.unique_keys
               THEN [status |-> OK, dst |-> state.dst, iter |-> iter]
               ELSE EpochScan(data, index, reader, key,
                              [epoch |-> at.epoch, table |-> at.table + 1],
                              [status |-> state.status, dst |-> state.dst,
                               iter |-> iter + 1])

\* PlfsIoReader::Get(key, epoch, dst)
EpochGet(data, index, reader, key, epoch, r) ==
  EpochScan(data, index, reader, key, [epoch |-> epoch, table |-> 0], r)

\* The loop of PlfsIoReader::Gets.
RECURSIVE GetsScan(_, _, _, _, _, _)
GetsScan(data, index, reader, key, epoch, r) ==
  IF r.status # OK THEN r
  ELSE LET next == EpochGet(data, index, reader, key, epoch, r)
       IN IF epoch < reader.num_epoches - 1
            THEN GetsScan(data, index, reader, key, epoch + 1, next)
            ELSE next

\* PlfsIoReader::Gets(key, dst) on a reader whose epoch_iter_ is at iter.
Gets(data, index, reader, key, iter) ==
  IF reader.num_epoches # 0
    THEN GetsScan(data, index, reader, key, 0, [status |-> OK, dst |-> <<>>, iter |-> iter])
    ELSE [status |-> OK, dst |-> <<>>, iter |-> iter]

\* Footer::DecodeFrom on the last Footer::kEncodeLength bytes of the index
\* log: they decode exactly when they are a footer that was written there.
\* PlfsIoReader::Open
Open(data, index) ==
  LET n == Len(index.log)
      NoReader == [num_epoches |-> 0, epoch_index |-> <<>>]
  IN IF index.offset < kEncodeLength
       THEN [status |-> Corruption, reader |-> NoReader]
     ELSE IF index.log[n].kind # "footer" \/ index.log[n].len # kEncodeLength
       THEN [status |-> Corruption, reader |-> NoReader]
     ELSE LET footer == index.log[n].body
              contents == ReadBlock(index, footer.epoch_index_handle)
          IN IF contents.status # OK
               THEN [status |-> contents.status, reader |-> NoReader]
               ELSE [status |-> OK,
                     reader |-> [num_epoches |-> footer.num_epoches,
                                 epoch_index |-> contents.data]]

\* ------------------------------------------------------------------- spec
Init ==
  /\ options \in OptionSets
  /\ logger = NewLogger
  /\ buf = [buf0 |-> WriteBufferReset, buf1 |-> WriteBufferReset]
  /\ table_logger = NewTableLogger
  /\ data_sink = NewLogSink
  /\ index_sink = NewLogSink
  /\ fg = Idle("none", FALSE, "none")
  /\ bg = IdleBG
  /\ hist = [accepted |-> <<>>, handed |-> <<>>, gen |-> 0, finishes |-> 0,
             assert_failed |-> FALSE, unheld |-> FALSE]
  /\ aborted = FALSE
  /\ bloom = <<>>

Next ==
  \/ \E key \in Keys : Add(key)
  \/ \E dry_run \in BOOLEAN : MakeEpoch(dry_run)
  \/ \E dry_run \in BOOLEAN : Finish(dry_run)
  \/ Wakeup
  \/ BGWork
  \/ CompactWriteBuffer
  \/ DoCompaction

Spec == Init /\ [][Next]_vars

\* ------------------------------------------- the logger with Wait and Close
\* The logger as in Spec, whose caller also waits for the compaction, closes
\* the logs and deletes the logger.
Wait ==
  /\ ~aborted /\ fg.pc = "idle"
  /\ \E r \in {WaitCall(logger)} : Ran("Wait", FALSE, 0, r)

\* PlfsIoLogger::~PlfsIoLogger: no call follows it.
DestroyPlfsIoLogger ==
  /\ ~aborted /\ fg.pc = "idle"
  /\ \E r \in {WaitCall(logger)} : Ran("~PlfsIoLogger", FALSE, 0, r)

\* PlfsIoLogger::Close, from mu_->Unlock() to the end of data_->Lclose();
\* when that fails the call locks mu again and returns.
CloseData(io_error) ==
  /\ ~aborted /\ fg.pc = "idle"
  /\ \E r \in {Lclose(data_sink, io_error)} :
       /\ data_sink' = r.sink
       /\ fg' = IF r.status = OK
                  THEN [Idle("Close", FALSE, "none") EXCEPT !.pc = "CloseIndex"]
                  ELSE Idle("Close", FALSE, r.status)
  /\ UNCHANGED <<bloom, options, logger, buf, table_logger, index_sink, bg, hist,
                 aborted>>

\* PlfsIoLogger::Close, from index_->Lclose() to its return with mu locked.
CloseIndex(io_error) ==
  /\ ~aborted /\ fg.pc = "CloseIndex"
  /\ \E r \in {Lclose(index_sink, io_error)} :
       /\ index_sink' = r.sink
       /\ fg' = Idle("Close", FALSE, r.status)
  /\ UNCHANGED <<bloom, options, logger, buf, table_logger, data_sink, bg, hist,
                 aborted>>

NextClose ==
  \/ Next
  \/ Wait
  \/ DestroyPlfsIoLogger
  \/ \E io_error \in BOOLEAN : CloseData(io_error)
  \/ \E io_error \in BOOLEAN : CloseIndex(io_error)

InitClose == Init /\ ~options.unique_keys

SpecClose == InitClose /\ [][NextClose]_vars

\* ------------------------------------------------ the logger in blocking mode
\* The logger with non_blocking = false whose caller adds, makes epochs,
\* finishes and waits.  Every dispatched BGWork runs, the compaction it
\* starts goes on to its end (every sink write returns), and a thread that
\* SignalAll has woken on bg_cv goes on once it has mu.
\* With memtable_buffer = 5 a table holds no entry (tb_bytes is 0) and every
\* Add finds the buffer full.
BlockingOptionSets ==
  { [BaseOptions EXCEPT !.unique_keys = uk, !.memtable_buffer = mb] :
      uk \in BOOLEAN, mb \in {5, 20} }

InitBlocking ==
  /\ options \in BlockingOptionSets
  /\ logger = NewLogger
  /\ buf = [buf0 |-> WriteBufferReset, buf1 |-> WriteBufferReset]
  /\ table_logger = NewTableLogger
  /\ data_sink = NewLogSink
  /\ index_sink = NewLogSink
  /\ fg = Idle("none", FALSE, "none")
  /\ bg = IdleBG
  /\ hist = [accepted |-> <<>>, handed |-> <<>>, gen |-> 0, finishes |-> 0,
             assert_failed |-> FALSE, unheld |-> FALSE]
  /\ aborted = FALSE
  /\ bloom = <<>>

NextBlocking ==
  \/ Next
  \/ Wait

\* The body of a compaction does not last for ever: CompactWriteBuffer is
\* enabled exactly where CompactionInBody holds, and its step leaves it.
CompactionInBody == ~aborted /\ bg.pc = "compact"

SpecBlocking ==
  /\ InitBlocking /\ [][NextBlocking]_vars
  /\ WF_vars(BGWork) /\ WF_vars(DoCompaction) /\ WF_vars(Wakeup)
  /\ []<>~CompactionInBody

\* ------------------------------------- the logger whose tables hold no entry
\* The logger as in Spec, blocking or not, constructed with
\* memtable_buffer = 5: entries_per_tb_ and tb_bytes_ compute to 0.
SmallBufferOptionSets ==
  { [BaseOptions EXCEPT !.non_blocking = nb, !.unique_keys = uk, !.memtable_buffer = 5] :
      nb \in BOOLEAN, uk \in BOOLEAN }

InitSmallBuffer ==
  /\ options \in SmallBufferOptionSets
  /\ logger = NewLogger
  /\ buf = [buf0 |-> WriteBufferReset, buf1 |-> WriteBufferReset]
  /\ table_logger = NewTableLogger
  /\ data_sink = NewLogSink
  /\ index_sink = NewLogSink
  /\ fg = Idle("none", FALSE, "none")
  /\ bg = IdleBG
  /\ hist = [accepted |-> <<>>, handed |-> <<>>, gen |-> 0, finishes |-> 0,
             assert_failed |-> FALSE, unheld |-> FALSE]
  /\ aborted = FALSE
  /\ bloom = <<>>

SpecSmallBuffer == InitSmallBuffer /\ [][Next]_vars

\* ------------------------------------------- the sinks share the logger's mu
\* The logger as in Spec with both sinks configured with its mutex mu
\* (LogOptions::mu).
InitSharedMu ==
  /\ options \in OptionSets
  /\ logger = NewLogger
  /\ buf = [buf0 |-> WriteBufferReset, buf1 |-> WriteBufferReset]
  /\ table_logger = NewTableLogger
  /\ data_sink = [NewLogSink EXCEPT !.mu = "mu"]
  /\ index_sink = [NewLogSink EXCEPT !.mu = "mu"]
  /\ fg = Idle("none", FALSE, "none")
  /\ bg = IdleBG
  /\ hist = [accepted |-> <<>>, handed |-> <<>>, gen |-> 0, finishes |-> 0,
             assert_failed |-> FALSE, unheld |-> FALSE]
  /\ aborted = FALSE
  /\ bloom = <<>>

SpecSharedMu == InitSharedMu /\ [][Next]_vars

\* ------------------------------------------- the table logger on its own
\* A TableLogger driven through its operations one call at a time, in any
\* order its REQUIRES clauses allow, under a wider choice of options.
TableOptionSets ==
  { [BaseOptions EXCEPT !.unique_keys = uk, !.tail_padding = pad[1],
                        !.index_buffer = pad[2], !.block_buffer = bb, !.block_size = bs] :
      uk \in BOOLEAN, pad \in {<<TRUE, 7>>, <<TRUE, 64>>, <<FALSE, 64>>},
      bb \in {18, 64}, bs \in {18, 23} }

InitTable ==
  /\ options \in TableOptionSets
  /\ logger = NewLogger
  /\ buf = [buf0 |-> WriteBufferReset, buf1 |-> WriteBufferReset]
  /\ table_logger = NewTableLogger
  /\ data_sink = NewLogSink
  /\ index_sink = NewLogSink
  /\ fg = Idle("none", FALSE, "none")
  /\ bg = IdleBG
  /\ hist = [accepted |-> <<>>, handed |-> <<>>, gen |-> 0, finishes |-> 0,
             assert_failed |-> FALSE, unheld |-> FALSE]
  /\ aborted = FALSE
  /\ bloom = <<>>

\* The call has returned with the table logger and the sinks as in w.
Returned(w) ==
  /\ table_logger' = w.t
  /\ data_sink' = w.data
  /\ index_sink' = w.index
  /\ hist' = [hist EXCEPT !.handed = @ \o w.handed, !.assert_failed = @ \/ w.broke,
                          !.unheld = @ \/ w.unheld]
  /\ UNCHANGED <<bloom, options, logger, buf, fg, bg, aborted>>

\* The keys the caller adds: the smallest key and the key above MaxKey, so
\* that the keys 2..MaxKey between them are never added.
TableAddKeys == {1, MaxKey + 1}

\* The keys of the table being built.
TableKeys ==
  { hist.handed[i].key : i \in { j \in 1..Len(hist.handed) :
                                   /\ hist.handed[j].epoch = table_logger.num_epochs
                                   /\ hist.handed[j].table = table_logger.num_tables } }

RECURSIVE BloomOf(_, _)
BloomOf(b, keys) ==
  IF keys = {} THEN b
  ELSE LET k == CHOOSE x \in keys : TRUE IN BloomOf(BloomAddKey(b, k), keys \ {k})

TableAdd(key) ==
  /\ ~aborted /\ ~table_logger.finished
  /\ Len(hist.handed) < MaxAdds
  /\ key >= table_logger.last_key
  /\ \E fuse \in 0..MaxLwrites :
       \E w \in {TableLoggerAdd(World(fuse), key, Len(hist.handed) + 1)} :
          \/ /\ w.broke /\ ~hist.assert_failed
             /\ aborted' = TRUE
             /\ UNCHANGED <<bloom, options, logger, buf, table_logger, data_sink, index_sink,
                            fg, bg, hist>>
          \/ Returned([w EXCEPT !.handed =
                         IF table_logger.status = OK
                           THEN <<[key |-> key, value |-> Len(hist.handed) + 1,
                                   epoch |-> table_logger.num_epochs,
                                   table |-> table_logger.num_tables]>>
                           ELSE <<>>])

TableFlush ==
  /\ ~aborted /\ ~table_logger.finished
  /\ \E w \in {Flush(World(0))} : Returned(w)

\* The caller passes no filter, the filter of the keys of the table, or a
\* filter that also answers for a key the table does not hold, as a Bloom
\* filter does on a false positive.
TableEndTable ==
  /\ ~aborted /\ ~table_logger.finished
  /\ \E filter_block \in {<<>>} \cup { <<BloomOf(NewBloomBlock(options.bf_bits_per_key,
                                                              bf_bytes(options)), keys)>>
                                         : keys \in {TableKeys, TableKeys \cup {MaxKey}} } :
       \E fuse \in 0..MaxLwrites :
         \E w \in {EndTable(World(fuse), filter_block)} : Returned(w)

TableEndEpoch ==
  /\ ~aborted /\ ~table_logger.finished
  /\ \E fuse \in 0..MaxLwrites : \E w \in {EndEpoch(World(fuse))} : Returned(w)

TableFinish ==
  /\ ~aborted /\ ~table_logger.finished
  /\ \E fuse \in 0..MaxLwrites :
       \E w \in {TableLoggerFinish(World(fuse))} : Returned(w)

NextTable ==
  \/ \E key \in TableAddKeys : TableAdd(key)
  \/ TableFlush
  \/ TableEndTable
  \/ TableEndEpoch
  \/ TableFinish

SpecTable == InitTable /\ [][NextTable]_vars

\* ------------------------------------------------------------- spec: Bloom
\* A BloomBlock on its own: constructed with some bits_per_key and size,
\* keys are added, Finish() returns its contents and BloomKeyMayMatch is
\* asked about keys.
BloomBitsPerKey == {0, 1, 3, 5, 10, 20, 44, 100}
BloomKeys == 0..(MaxKey + 1)

InitBloom ==
  /\ options = BaseOptions
  /\ logger = NewLogger
  /\ buf = [buf0 |-> WriteBufferReset, buf1 |-> WriteBufferReset]
  /\ table_logger = NewTableLogger
  /\ data_sink = NewLogSink
  /\ index_sink = NewLogSink
  /\ fg = Idle("none", FALSE, "none")
  /\ bg = IdleBG
  /\ hist = [accepted |-> <<>>, handed |-> <<>>, gen |-> 0, finishes |-> 0,
             assert_failed |-> FALSE, unheld |-> FALSE]
  /\ aborted = FALSE
  /\ \E bits_per_key \in BloomBitsPerKey : \E size \in 1..MaxFilterBytes :
       bloom = [bits_per_key |-> bits_per_key,
                block |-> NewBloomBlock(bits_per_key, size), added |-> {},
                contents |-> <<>>, asked |-> {}, matched |-> {}]

Untouched ==
  UNCHANGED <<options, logger, buf, table_logger, data_sink, index_sink, fg, bg, hist,
              aborted>>

\* BloomBlock::AddKey(key) before Finish().
BloomAdd(key) ==
  /\ bloom.contents = <<>>
  /\ bloom' = [bloom EXCEPT !.block = BloomAddKey(@, key), !.added = @ \cup {key}]
  /\ Untouched

\* BloomBlock::Finish(): the contents are what a reader gets to see.
BloomFinished ==
  /\ bloom.contents = <<>>
  /\ bloom' = [bloom EXCEPT !.contents = <<BloomFinish(bloom.block)>>]
  /\ Untouched

\* BloomKeyMayMatch(key, contents)
BloomAsk(key) ==
  /\ bloom.contents # <<>>
  /\ key \notin bloom.asked
  /\ bloom' = [bloom EXCEPT
                 !.asked = @ \cup {key},
                 !.matched = IF BloomKeyMayMatch(key, Head(bloom.contents))
                               THEN @ \cup {key} ELSE @]
  /\ Untouched

NextBloom ==
  \/ \E key \in BloomKeys : BloomAdd(key)
  \/ BloomFinished
  \/ \E key \in BloomKeys : BloomAsk(key)

SpecBloom == InitBloom /\ [][NextBloom]_vars

\* --------------------------------------------------------- spec: LogSink
\* A LogSink on its own, with or without a mutex: a caller locks and
\* unlocks it, writes data of some size, asks for the offset, syncs and
\* closes.  fg holds the last call, what it returned and whether the caller
\* holds the sink's mutex.
SinkCall(op, size, ret, tell, holds_mu, calls) ==
  [pc |-> "idle", op |-> op, size |-> size, ret |-> ret, tell |-> tell,
   holds_mu |-> holds_mu, calls |-> calls]

InitSink ==
  /\ options = BaseOptions
  /\ logger = NewLogger
  /\ buf = [buf0 |-> WriteBufferReset, buf1 |-> WriteBufferReset]
  /\ table_logger = NewTableLogger
  /\ \E mu \in {NULL, "mu"} : data_sink = [NewLogSink EXCEPT !.mu = mu]
  /\ index_sink = NewLogSink
  /\ fg = SinkCall("none", 0, "none", 0, FALSE, 0)
  /\ bg = IdleBG
  /\ hist = [accepted |-> <<>>, handed |-> <<>>, gen |-> 0, finishes |-> 0,
             assert_failed |-> FALSE, unheld |-> FALSE]
  /\ aborted = FALSE
  /\ bloom = <<>>

\* The caller holds the mutex the sink was configured with, if any.
SinkHeld == data_sink.mu = NULL \/ fg.holds_mu

\* A call on the sink has returned: r = [sink, status].  When held is false
\* the call has gone through a failed mu_->AssertHeld().
SinkReturned(op, size, r, held) ==
  \/ /\ ~held /\ ~hist.assert_failed
     /\ aborted' = TRUE
     /\ UNCHANGED <<bloom, options, logger, buf, table_logger, data_sink, index_sink,
                    fg, bg, hist>>
  \/ /\ data_sink' = r.sink
     /\ fg' = SinkCall(op, size, r.status, Ltell(r.sink), fg.holds_mu, fg.calls + 1)
     /\ hist' = [hist EXCEPT !.assert_failed = @ \/ ~held, !.unheld = @ \/ ~held]
     /\ UNCHANGED <<bloom, options, logger, buf, table_logger, index_sink, bg, aborted>>

SinkReady == ~aborted /\ fg.calls < MaxSinkCalls

SinkLwrite(size, io_error) ==
  /\ SinkReady
  /\ \E r \in {Lwrite(data_sink,
                      <<[len |-> size, size |-> size, kind |-> "bytes", body |-> <<>>]>>,
                      io_error)} :
       SinkReturned("Lwrite", size, r, SinkHeld \/ ~data_sink.file)

SinkLtell ==
  /\ SinkReady
  /\ SinkReturned("Ltell", 0, [sink |-> data_sink, status |-> OK], SinkHeld)

SinkLsync(io_error) ==
  /\ SinkReady
  /\ \E r \in {Lsync(data_sink, io_error)} :
       SinkReturned("Lsync", 0, r, SinkHeld \/ ~data_sink.file)

\* LogSink::Lock and LogSink::Unlock: mu_->Lock() and mu_->Unlock() when the
\* sink has a mutex.
SinkLock ==
  /\ SinkReady /\ ~fg.holds_mu
  /\ fg' = SinkCall("Lock", 0, OK, Ltell(data_sink), data_sink.mu # NULL, fg.calls + 1)
  /\ UNCHANGED <<bloom, options, logger, buf, table_logger, data_sink, index_sink, bg,
                 hist, aborted>>

SinkUnlock ==
  /\ SinkReady /\ SinkHeld
  /\ fg' = SinkCall("Unlock", 0, OK, Ltell(data_sink), FALSE, fg.calls + 1)
  /\ UNCHANGED <<bloom, options, logger, buf, table_logger, data_sink, index_sink, bg,
                 hist, aborted>>

SinkLclose(io_error) ==
  /\ SinkReady /\ SinkHeld
  /\ \E r \in {Lclose(data_sink, io_error)} : SinkReturned("Lclose", 0, r, TRUE)

NextSink ==
  \/ \E size \in 0..MaxWrite : \E io_error \in BOOLEAN : SinkLwrite(size, io_error)
  \/ SinkLtell
  \/ \E io_error \in BOOLEAN : SinkLsync(io_error)
  \/ SinkLock
  \/ SinkUnlock
  \/ \E io_error \in BOOLEAN : SinkLclose(io_error)

SpecSink == InitSink /\ [][NextSink]_vars

\* ============================================================== properties
\* The last foreground call was op and has returned ret.
Returns(op, dry_run, ret) ==
  fg.pc = "idle" /\ fg.op = op /\ fg.dry_run = dry_run /\ fg.ret = ret

\* No compaction is scheduled or running and no buffer waits for one.
Quiet == bg.pc = "idle" /\ logger.imm_buf = NULL /\ ~logger.has_bg_compaction

\* The values accepted with key k, in the order of the Add calls.
ValuesOf(k) == SelectSeq(hist.accepted, LAMBDA e : e.key = k)
AcceptedKeys == { hist.accepted[i].key : i \in 1..Len(hist.accepted) }

\* dst holds exactly the values of the entries in es, in some order.
SameValues(dst, es) ==
  /\ Len(dst) = Len(es)
  /\ { dst[i] : i \in 1..Len(dst) } = { es[i].value : i \in 1..Len(es) }

\* Gets(k) on a reader opened on the two logs, whatever the position its
\* epoch iterator was left at, returns OK and the values accepted with k.
ReadsBack(k) ==
  \E o \in {Open(data_sink, index_sink)} :
    /\ o.status = OK
    /\ \A iter \in 0..(Len(o.reader.epoch_index) + 1) :
         \E g \in {Gets(data_sink, index_sink, o.reader, k, iter)} :
           /\ g.status = OK
           /\ SameValues(g.dst, ValuesOf(k))

\* With unique_keys set no key has been added twice, as the caller promises.
KeysAsPromised ==
  options.unique_keys => \A k \in AcceptedKeys : Len(ValuesOf(k)) = 1

\* The first Finish has returned OK, the compaction it started is over, the
\* table logger is OK and no assert has failed.
FinishedWell ==
  /\ Returns("Finish", FALSE, OK) /\ hist.finishes = 1 /\ Quiet
  /\ table_logger.status = OK /\ ~hist.assert_failed /\ KeysAsPromised

\* C1: after any sequence of Add and MakeEpoch calls followed by a successful
\* Finish, a reader opened on the two logs returns from Gets(k), for every
\* key k that was added, exactly the values added with k (one value when
\* unique_keys is set).
C1_RoundTrip == FinishedWell => \A k \in AcceptedKeys : ReadsBack(k)

\* ---------------------------------------------------------------------- C2
Handed == 1..Len(hist.handed)

\* The entry handed over as hist.handed[i], as Add accepted it.
AcceptedAs(i) == hist.accepted[hist.handed[i].value]

HandedValues == { hist.handed[i].value : i \in Handed }

\* The values of the entries that wait in the two write buffers.
BufferedValues ==
  UNION { { buf[b].entries[i].value : i \in 1..Len(buf[b].entries) } : b \in DOMAIN buf }

SameTable(i, j) ==
  /\ hist.handed[i].epoch = hist.handed[j].epoch
  /\ hist.handed[i].table = hist.handed[j].table

\* Entry i lies in a table that is not written after the table of entry j.
NotAfter(i, j) ==
  \/ hist.handed[i].epoch < hist.handed[j].epoch
  \/ /\ hist.handed[i].epoch = hist.handed[j].epoch
     /\ hist.handed[i].table <= hist.handed[j].table

\* C2: as long as the table logger is OK, every entry Add has accepted is in
\* a write buffer or has been handed to the table logger, none is handed over
\* twice, the keys of a table arrive in nondescending order, entries of
\* different epochs (separated by a MakeEpoch or Finish) land in different
\* epochs in that order and entries of one epoch in one epoch, and the tables
\* follow the order in which the entries were accepted, that is the order in
\* which their buffers were swapped out.
C2_HandedOnce ==
  table_logger.status = OK =>
    /\ \A i \in Handed :
         /\ hist.handed[i].value \in 1..Len(hist.accepted)
         /\ AcceptedAs(i).key = hist.handed[i].key
    /\ \A i, j \in Handed : i # j => hist.handed[i].value # hist.handed[j].value
    /\ 1..Len(hist.accepted) = HandedValues \cup BufferedValues
    /\ \A i, j \in Handed :
         i < j /\ SameTable(i, j) => hist.handed[i].key <= hist.handed[j].key
    /\ \A i, j \in Handed :
         /\ AcceptedAs(i).gen < AcceptedAs(j).gen
              => hist.handed[i].epoch < hist.handed[j].epoch
         /\ AcceptedAs(i).gen = AcceptedAs(j).gen
              => hist.handed[i].epoch = hist.handed[j].epoch
    /\ \A i, j \in Handed :
         hist.handed[i].value < hist.handed[j].value => NotAfter(i, j)

\* Three entries have gone through: two of one buffer, accepted with keys 2
\* and 1 and handed over as 1 and 2, and one of the next epoch.
C2_Witness ==
  /\ table_logger.status = OK /\ Len(hist.handed) = 3
  /\ hist.accepted[1].key = 2 /\ hist.accepted[2].key = 1
  /\ hist.handed[1].value = 2 /\ hist.handed[2].value = 1
  /\ SameTable(1, 2)
  /\ hist.handed[3].epoch = hist.handed[1].epoch + 1

\* ---------------------------------------------------------------------- C3
\* mem_buf_->CurrentBufferSize() >= tb_bytes_
Full == CurrentBufferSize(buf[logger.mem_buf]) >= tb_bytes(options)

\* Add returns BufferFull and changes nothing.
AddRefused(r) ==
  /\ r.at = "idle" /\ r.status = "BufferFull"
  /\ r.logger = logger /\ r.swaps = 0 /\ r.scheduled = 0
  /\ ~Stored("Add", r)

\* Add swaps the buffers, returns OK and stores the entry in the new mem_buf.
AddStored(r) ==
  /\ r.at = "idle" /\ r.status = OK /\ Stored("Add", r)
  /\ r.swaps = 1 /\ r.logger.mem_buf = OtherBuf(logger.mem_buf)
  /\ r.logger.imm_buf = logger.mem_buf

CallsNow == {AddCall(logger), MakeEpochCall(logger, FALSE), FinishCall(logger, FALSE)}

\* C4: in non-blocking mode no foreground call is ever waiting on bg_cv;
\* where the blocking code would wait on entry (Add with a full mem_buf and
\* imm_buf in flight, MakeEpoch with a pending epoch flush or imm_buf in
\* flight, Finish with either pending flag or imm_buf in flight) the call
\* returns BufferFull, and a call whose Prepare succeeded returns although
\* pending flags are still set.
C4_NeverWaits ==
  options.non_blocking =>
    /\ fg.pc = "idle"
    /\ \A r \in CallsNow : r.at = "idle"
    /\ table_logger.status = OK /\ Full /\ logger.imm_buf # NULL
         => AddCall(logger).status = "BufferFull"
    /\ logger.pending_epoch_flush \/ logger.imm_buf # NULL
         => MakeEpochCall(logger, FALSE).status = "BufferFull"
    /\ logger.pending_finish \/ logger.pending_epoch_flush \/ logger.imm_buf # NULL
         => FinishCall(logger, FALSE).status = "BufferFull"

\* A non-blocking Finish has returned OK while its compaction is pending.
C4_Witness ==
  /\ options.non_blocking /\ Returns("Finish", FALSE, OK)
  /\ logger.pending_finish /\ logger.pending_epoch_flush /\ logger.imm_buf # NULL

\* ---------------------------------------------------------------------- C5
\* C5: once the status of the table logger is not OK, no call of Add, Flush,
\* EndTable, EndEpoch or Finish changes it, issues an Lwrite on either log,
\* or changes num_tables or num_epochs, and a Commit on its own (which Add
\* and EndTable call only while the status is OK) changes nothing at all.
C5_StickyStatus ==
  /\ [](table_logger.status # OK =>
          \A fuse \in 0..MaxLwrites :
            \E w \in {Commit(World(fuse))} :
              w.t = table_logger /\ w.data = data_sink /\ w.index = index_sink)
  /\ [][table_logger.status # OK =>
          /\ table_logger'.status = table_logger.status
          /\ data_sink'.lwrites = data_sink.lwrites
          /\ index_sink'.lwrites = index_sink.lwrites
          /\ data_sink'.log = data_sink.log
          /\ index_sink'.log = index_sink.log
          /\ table_logger'.num_tables = table_logger.num_tables
          /\ table_logger'.num_epochs = table_logger.num_epochs]_vars

\* The only Lwrite, on the data log, has failed, and Finish has been called
\* since: it has written nothing.
C5_Witness ==
  /\ table_logger.status = "IOError" /\ table_logger.finished
  /\ data_sink.lwrites = 1 /\ index_sink.lwrites = 0

\* ---------------------------------------------------------------------- C6
\* The call returns the status of the table logger and changes nothing.
Rejected(r) ==
  /\ r.at = "idle" /\ r.status = table_logger.status
  /\ r.logger = logger /\ r.swaps = 0 /\ r.scheduled = 0

\* C6: once a compaction has ended with the table logger not OK, each of
\* Add, MakeEpoch(false) and Finish(false) returns the status of the table
\* logger, stores no entry, swaps no buffer and schedules no compaction.
C6_ErrorReturned ==
  table_logger.status # OK /\ bg.pc = "idle" /\ fg.pc = "idle" =>
    /\ \A r \in CallsNow : Rejected(r)
    /\ ~Stored("Add", AddCall(logger))

\* MakeEpoch has returned the I/O error a compaction has met.
C6_Witness ==
  /\ table_logger.status = "IOError" /\ bg.pc = "idle"
  /\ Returns("MakeEpoch", FALSE, "IOError")
  /\ ~logger.pending_epoch_flush /\ logger.imm_buf = NULL

\* ---------------------------------------------------------------------- C7
Footers == SelectSeq(index_sink.log, LAMBDA piece : piece.kind = "footer")
Metas == SelectSeq(index_sink.log, LAMBDA piece : piece.kind = "meta")

\* A Finish has swapped the buffer out and its compaction is over.
FinishCompleted ==
  hist.finishes >= 1 /\ Quiet /\ fg.pc = "idle" /\ ~logger.pending_finish

\* C7: after a Finish has completed, Add, MakeEpoch and Finish fail, a second
\* Finish with AssertionFailed, and the index log never holds a second
\* meta-block or footer.
C7_FinishedIsFinal ==
  /\ FinishCompleted =>
       /\ AddCall(logger).status # OK
       /\ MakeEpochCall(logger, FALSE).status # OK
       /\ FinishCall(logger, FALSE).status = "AssertionFailed"
  /\ Len(Footers) <= 1 /\ Len(Metas) <= 1

\* ---------------------------------------------------------------------- C8
\* The index log ends with a footer whose handle is that of a meta-block on
\* the log and whose num_epoches is the table logger's num_epochs.
EndsWithFooter ==
  /\ index_sink.log # <<>>
  /\ \E last \in {index_sink.log[Len(index_sink.log)]} :
       /\ last.kind = "footer"
       /\ last.off + last.len = index_sink.offset
       /\ last.body.num_epoches = table_logger.num_epochs
       /\ \E i \in 1..Len(index_sink.log) :
            /\ index_sink.log[i].kind = "meta"
            /\ index_sink.log[i].off = last.body.epoch_index_handle.offset
            /\ index_sink.log[i].size = last.body.epoch_index_handle.size

\* C8: whenever a blocking Finish(false) has returned OK, the index log ends
\* with the footer.
C8_FinishOkHasFooter ==
  ~options.non_blocking /\ Returns("Finish", FALSE, OK) => EndsWithFooter

\* ---------------------------------------------------------------------- C9
MaxTell == 130

\* C9: after a successful TableLogger::Finish the size of the index log is a
\* multiple of index_buffer when tail_padding is set, and the padding brings
\* every offset the footer may follow to such a size; without tail_padding no
\* padding is on the log.
C9_TailPadded ==
  /\ options.tail_padding /\ options.index_buffer > 0 =>
       \A tell \in 0..MaxTell :
         (tell + TailPadding(tell, kEncodeLength) + kEncodeLength)
            % options.index_buffer = 0
  /\ table_logger.finished /\ table_logger.status = OK =>
       /\ Len(Footers) = 1
       /\ options.tail_padding /\ options.index_buffer > 0 =>
            index_sink.offset % options.index_buffer = 0
       /\ ~options.tail_padding =>
            \A i \in 1..Len(index_sink.log) : index_sink.log[i].kind # "padding"

\* Finish has padded the index log of one table to a multiple of 7 bytes.
C9_Witness ==
  /\ table_logger.finished /\ table_logger.status = OK
  /\ options.tail_padding /\ options.index_buffer = 7
  /\ \E i, j \in 1..Len(index_sink.log) :
       /\ index_sink.log[i].kind = "index"
       /\ index_sink.log[j].kind = "padding" /\ index_sink.log[j].len > 0

\* --------------------------------------------------------------------- C10
\* The epochs (counted by the calls that sealed them) of which an entry has
\* reached the table logger.
EpochsWithEntries == { AcceptedAs(i).gen : i \in Handed }

\* A compaction that seals an epoch runs on an empty buffer while the table
\* logger counts no table in the epoch.
SealsEmptyEpoch ==
  /\ bg.pc = "compact" /\ bg'.pc = "lock"
  /\ bg.is_epoch_flush /\ bg.iter = <<>> /\ table_logger.num_tables = 0

\* C10: the num_epoches of the footer is the number of sealed epochs that
\* hold an entry, and sealing an epoch without a table changes neither
\* num_epochs nor num_tables nor the meta-block.
C10_EpochsCounted ==
  /\ [](Len(Footers) = 1 /\ ~hist.assert_failed =>
          Footers[1].body.num_epoches = Cardinality(EpochsWithEntries))
  /\ [][SealsEmptyEpoch =>
          /\ table_logger'.num_epochs = table_logger.num_epochs
          /\ table_logger'.num_tables = table_logger.num_tables
          /\ table_logger'.meta_block = table_logger.meta_block]_vars

\* Two epochs have been sealed, one of them empty: the footer counts one.
C10_Witness ==
  /\ Len(Footers) = 1 /\ ~hist.assert_failed /\ hist.gen = 2
  /\ Len(hist.handed) >= 1
  /\ Footers[1].body.num_epoches = 1

\* --------------------------------------------------------------------- C11
\* The number of tables the meta-block records for epoch e.
TablesOfEpoch(e) ==
  Cardinality({ i \in 1..Len(table_logger.meta_block) :
                  table_logger.meta_block[i].key[1] = e })

\* Entries have been added to the table being built.
TableHasEntries == table_logger.last_key # 0

\* C11: the meta-block never records more than kMaxTablesPerEpoch tables for
\* an epoch and never more than kMaxEpoches epochs are sealed; on an OK table
\* logger the EndTable that would record one table more, and the EndEpoch
\* that would seal one epoch more, set the status to AssertionFailed and
\* record nothing, and with that status PlfsIoLogger::Add returns it without
\* storing the entry.
C11_CapsEnforced ==
  /\ \A e \in 0..kMaxEpoches : TablesOfEpoch(e) <= kMaxTablesPerEpoch
  /\ table_logger.num_tables <= kMaxTablesPerEpoch
  /\ table_logger.num_epochs <= kMaxEpoches
  /\ ( /\ table_logger.status = OK /\ ~table_logger.finished /\ TableHasEntries
       /\ table_logger.num_tables = kMaxTablesPerEpoch )
       => \E w \in {EndTable(World(0), <<>>)} :
            /\ w.t.status = "AssertionFailed"
            /\ w.t.meta_block = table_logger.meta_block
            /\ w.t.num_tables = table_logger.num_tables
  /\ ( /\ table_logger.status = OK /\ ~table_logger.finished
       /\ table_logger.num_epochs = kMaxEpoches
       /\ (TableHasEntries \/ table_logger.num_tables > 0) )
       => \E w \in {EndEpoch(World(0))} :
            /\ w.t.status = "AssertionFailed"
            /\ w.t.num_epochs = table_logger.num_epochs
  /\ table_logger.status = "AssertionFailed"
       => \E r \in {AddCall(logger)} :
            /\ r.status = "AssertionFailed" /\ r.at = "idle"
            /\ r.logger = logger

\* An EndTable has met the cap: the epoch has kMaxTablesPerEpoch tables in
\* the meta-block and the status is AssertionFailed although no assert failed.
C11_Witness ==
  /\ table_logger.status = "AssertionFailed" /\ ~hist.assert_failed
  /\ table_logger.num_tables = kMaxTablesPerEpoch
  /\ TablesOfEpoch(table_logger.num_epochs) = kMaxTablesPerEpoch
  /\ TableHasEntries

\* --------------------------------------------------------------------- C12
\* The first Finish has returned OK, the compaction it started is over, the
\* table logger is OK and no assert has failed.
FinishedReadable ==
  /\ Returns("Finish", FALSE, OK) /\ hist.finishes = 1 /\ Quiet
  /\ table_logger.status = OK /\ ~hist.assert_failed

\* The values of s at the positions in P, in the order of s.
RECURSIVE ValuesAt(_, _, _)
ValuesAt(s, P, i) ==
  IF i > Len(s) THEN <<>>
  ELSE (IF i \in P THEN <<s[i].value>> ELSE <<>>) \o ValuesAt(s, P, i + 1)

\* The tables were written epoch by epoch and, within an epoch, in the order
\* of their numbers, and hist.handed lists their entries in that order.  With
\* unique_keys only the first table of an epoch that holds k counts.
InScanOrder(k) ==
  ValuesAt(hist.handed,
           { i \in Handed :
               /\ hist.handed[i].key = k
               /\ options.unique_keys =>
                    ~\E j \in Handed : /\ hist.handed[j].key = k
                                       /\ hist.handed[j].epoch = hist.handed[i].epoch
                                       /\ hist.handed[j].table < hist.handed[i].table },
           1)

\* C12: Gets(k) on the finished directory returns the values added with k
\* epoch by epoch in ascending order and, within an epoch, table by table in
\* ascending order (a value added in epoch 0 before one added in epoch 1);
\* with unique_keys only the first table of each epoch that holds k
\* contributes, and every epoch contributes.
C12_GetsInOrder ==
  FinishedReadable =>
    \A k \in Keys :
      \E o \in {Open(data_sink, index_sink)} :
        /\ o.status = OK
        /\ \A iter \in 0..(Len(o.reader.epoch_index) + 1) :
             \E g \in {Gets(data_sink, index_sink, o.reader, k, iter)} :
               /\ g.status = OK
               /\ g.dst = InScanOrder(k)

\* --------------------------------------------------------------------- C13
\* The keys a lookup asks for: the empty key, the keys that can be added, the
\* keys between them and one key above them.
QueryKeys == 0..(MaxKey + 2)

HandedKeys == { hist.handed[i].key : i \in Handed }

\* The table logger has finished OK and no assert has failed.
TableFinishedWell ==
  table_logger.finished /\ table_logger.status = OK /\ ~hist.assert_failed

\* C13: Gets for a key that was never added returns OK and appends nothing to
\* dst, whether the key lies outside the key range of every table, is
\* rejected by a filter, passes a filter or meets a table without filter, or
\* the directory has no epoch.
C13_AbsentKey ==
  TableFinishedWell =>
    \A q \in QueryKeys \ HandedKeys :
      \E o \in {Open(data_sink, index_sink)} :
        /\ o.status = OK
        /\ \A iter \in 0..(Len(o.reader.epoch_index) + 1) :
             \E g \in {Gets(data_sink, index_sink, o.reader, q, iter)} :
               /\ g.status = OK
               /\ g.dst = <<>>

\* Table i of the meta-block has key q in its key range.
InRange(i, q) ==
  /\ table_logger.meta_block[i].handle.smallest_key <= q
  /\ q <= table_logger.meta_block[i].handle.largest_key

\* The filter of table i of the meta-block.
FilterOf(i) ==
  [offset |-> table_logger.meta_block[i].handle.filter_offset,
   size |-> table_logger.meta_block[i].handle.filter_size]

\* A finished directory of at least one epoch in which keys that were never
\* added lie in the key range of a table without filter, of a table whose
\* filter rejects the key, and of a table that holds a smaller and a larger
\* key and whose filter lets the key pass.
C13_Witness ==
  /\ TableFinishedWell /\ table_logger.num_epochs >= 1
  /\ \E q \in QueryKeys \ HandedKeys : \E i \in 1..Len(table_logger.meta_block) :
       InRange(i, q) /\ FilterOf(i).size = 0
  /\ \E q \in QueryKeys \ HandedKeys : \E i \in 1..Len(table_logger.meta_block) :
       /\ InRange(i, q) /\ FilterOf(i).size # 0
       /\ ~KeyMayMatch(index_sink, q, FilterOf(i))
  /\ \E q \in QueryKeys \ HandedKeys : \E i \in 1..Len(table_logger.meta_block) :
       /\ InRange(i, q) /\ FilterOf(i).size # 0
       /\ KeyMayMatch(index_sink, q, FilterOf(i))
       /\ \E a, b \in Handed :
            /\ hist.handed[a].key < q /\ q < hist.handed[b].key
            /\ SameTable(a, b)
            /\ table_logger.meta_block[i].key
                 = EpochKey(hist.handed[a].epoch, hist.handed[a].table)
\* --------------------------------------------------------------------- C14
\* C14: a Bloom filter has no false negatives: whatever its size of at least
\* one byte and its bits_per_key, BloomKeyMayMatch answers true on the
\* contents Finish() returned for every key that was added, and the reader
\* derives from the contents the bit count and the number of probes the
\* writer used.
C14_NoFalseNegative ==
  bloom.contents # <<>> =>
    /\ (Head(bloom.contents).len - 1) * 8 = bloom.block.bits
    /\ Head(bloom.contents).k = bloom.block.k
    /\ \A key \in bloom.added : BloomKeyMayMatch(key, Head(bloom.contents))
    /\ bloom.asked \cap bloom.added \subseteq bloom.matched

\* A filter of more than one byte with more than one probe and two keys has
\* been asked about a key it holds and about a key it does not hold, and has
\* rejected the latter.
C14_Witness ==
  /\ bloom.contents # <<>>
  /\ bloom.block.size > 1 /\ bloom.block.k > 1
  /\ Cardinality(bloom.added) = 2
  /\ bloom.asked \cap bloom.added # {}
  /\ bloom.asked \ bloom.matched # {}

\* --------------------------------------------------------------------- C15
\* The file of the log with the byte at offset b changed, and cut to n bytes.
Flip(sink, b) == [sink EXCEPT !.flipped = @ \cup {b}]
Truncate(sink, n) == [sink EXCEPT !.offset = n]

\* The blocks a log holds, as positions in the log.
BlocksOf(sink) ==
  { i \in 1..Len(sink.log) : sink.log[i].kind \in {"data", "index", "filter", "meta"} }

\* The bytes of block i of a log: contents, type and checksum.
BytesOf(sink, i) ==
  sink.log[i].off..(sink.log[i].off + sink.log[i].size + kBlockTrailerSize - 1)

HandleOf(sink, i) == [offset |-> sink.log[i].off, size |-> sink.log[i].size]

\* The keys stored in data block i of the data log.
KeysIn(i) ==
  { data_sink.log[i].body[j].key : j \in 1..Len(data_sink.log[i].body) }

\* ReadBlock returns the block as written, Corruption when the file ends
\* before the last byte of its trailer, and with verify_checksums Corruption
\* when one of its bytes has changed.
ReadBlockDetects(sink) ==
  \A i \in BlocksOf(sink) :
    /\ ReadBlock(sink, HandleOf(sink, i)) = [status |-> OK, data |-> sink.log[i].body]
    /\ \A n \in sink.log[i].off..(sink.log[i].off + sink.log[i].size + kBlockTrailerSize - 1) :
         ReadBlock(Truncate(sink, n), HandleOf(sink, i)).status = Corruption
    /\ options.verify_checksums =>
         \A b \in BytesOf(sink, i) :
           ReadBlock(Flip(sink, b), HandleOf(sink, i)).status = Corruption

\* C15: after a successful Finish, with verify_checksums, a byte changed
\* inside a data block of the data log makes Gets return Corruption for every
\* key stored in that block; and ReadBlock returns Corruption whenever fewer
\* than size + kBlockTrailerSize bytes can be read and whenever, with
\* verify_checksums, the stored checksum does not match the bytes.
C15_CorruptionDetected ==
  /\ ReadBlockDetects(data_sink) /\ ReadBlockDetects(index_sink)
  /\ (FinishedReadable /\ KeysAsPromised /\ options.verify_checksums) =>
       \A i \in BlocksOf(data_sink) : \A b \in BytesOf(data_sink, i) : \A k \in KeysIn(i) :
         \E o \in {Open(data_sink, index_sink)} :
           /\ o.status = OK
           /\ \A iter \in 0..(Len(o.reader.epoch_index) + 1) :
                Gets(Flip(data_sink, b), index_sink, o.reader, k, iter).status = Corruption

\* --------------------------------------------------------------------- C16
\* The errors a read of a block can end with: file->Read fails or the bytes
\* do not carry their checksum.
ReadErrors == {"IOError", Corruption}

\* The file of the log on which reading block i ends with err.
Faulty(sink, i, err) ==
  IF err = "IOError" THEN [sink EXCEPT !.unreadable = @ \cup {sink.log[i].off}]
  ELSE Flip(sink, sink.log[i].off)

KindBlocks(sink, kind) == { i \in 1..Len(sink.log) : sink.log[i].kind = kind }

\* The values the table holds whose index block is block i of the index log,
\* and the values data block i of the data log holds.
ValuesOfTable(i) ==
  { hist.handed[j].value :
      j \in { h \in Handed :
                \E m \in 1..Len(table_logger.meta_block) :
                  /\ table_logger.meta_block[m].handle.offset = index_sink.log[i].off
                  /\ table_logger.meta_block[m].key
                       = EpochKey(hist.handed[h].epoch, hist.handed[h].table) } }

\* The values the table holds whose filter is block i of the index log.
ValuesOfFilter(i) ==
  { hist.handed[j].value :
      j \in { h \in Handed :
                \E m \in 1..Len(table_logger.meta_block) :
                  /\ table_logger.meta_block[m].handle.filter_offset = index_sink.log[i].off
                  /\ table_logger.meta_block[m].key
                       = EpochKey(hist.handed[h].epoch, hist.handed[h].table) } }

ValuesOfBlock(i) ==
  { data_sink.log[i].body[j].value : j \in 1..Len(data_sink.log[i].body) }

Prefix(s, t) == Len(s) <= Len(t) /\ \A j \in 1..Len(s) : s[j] = t[j]

Range(s) == { s[j] : j \in 1..Len(s) }

\* The lookup gf on logs of which one block cannot be read, next to the
\* lookup g on the sound logs: gf returns the error of that block or OK; with
\* OK it has found what g has found; with the error it has stopped, so that
\* dst holds what g had found up to there; and it returns the error when g
\* has found one of values, the values that are only found by reading the
\* block.
StopsAt(gf, g, err, values) ==
  /\ gf.status \in {OK, err}
  /\ gf.status = OK => gf.dst = g.dst
  /\ Prefix(gf.dst, g.dst)
  /\ Range(g.dst) \cap values # {} => gf.status = err /\ Range(gf.dst) \cap values = {}

\* Reading the logs of a finished directory with one data block or one index
\* block that cannot be read.
ErrorsReturned(reader, k, iter, err) ==
  LET g == Gets(data_sink, index_sink, reader, k, iter)
  IN /\ g.status = OK
     /\ \A i \in KindBlocks(data_sink, "data") :
          StopsAt(Gets(Faulty(data_sink, i, err), index_sink, reader, k, iter), g, err,
                  ValuesOfBlock(i))
     /\ \A i \in KindBlocks(index_sink, "index") :
          StopsAt(Gets(data_sink, Faulty(index_sink, i, err), reader, k, iter), g, err,
                  ValuesOfTable(i))

\* C16 as amended: a lookup stops at the first index block or data block it
\* cannot read (IOError or Corruption) and returns that error, and Open
\* returns the error of reading the meta-block; a filter block that cannot
\* be read is taken to match, and the lookup returns what it returns on sound
\* logs.
C16_ErrorsButFilters ==
  FinishedReadable =>
    \E o \in {Open(data_sink, index_sink)} :
      /\ o.status = OK
      /\ \A err \in ReadErrors :
           /\ \A i \in KindBlocks(index_sink, "meta") :
                Open(data_sink, Faulty(index_sink, i, err)).status = err
           /\ \A k \in Keys : \A iter \in 0..(Len(o.reader.epoch_index) + 1) :
                /\ ErrorsReturned(o.reader, k, iter, err)
                /\ \A i \in KindBlocks(index_sink, "filter") :
                     Gets(data_sink, Faulty(index_sink, i, err), o.reader, k, iter)
                       = Gets(data_sink, index_sink, o.reader, k, iter)

\* C16 as stated: a filter block, too, that cannot be read stops the lookup
\* with its error.
C16_AsStated ==
  FinishedReadable =>
    \E o \in {Open(data_sink, index_sink)} :
      /\ o.status = OK
      /\ \A err \in ReadErrors : \A k \in Keys :
           \A iter \in 0..(Len(o.reader.epoch_index) + 1) :
             /\ ErrorsReturned(o.reader, k, iter, err)
             /\ \A i \in KindBlocks(index_sink, "filter") :
                  StopsAt(Gets(data_sink, Faulty(index_sink, i, err), o.reader, k, iter),
                          Gets(data_sink, index_sink, o.reader, k, iter), err,
                          ValuesOfFilter(i))

\* A finished directory of two epochs that hold the same key: with the data
\* block of the second epoch unreadable the lookup returns IOError after the
\* value of the first epoch, with the index block of the first epoch
\* unreadable it returns IOError and nothing, and with a filter unreadable
\* it returns OK and both values.
C16_Witness ==
  /\ FinishedReadable
  /\ \E o \in {Open(data_sink, index_sink)} : \E k \in Keys :
       /\ o.status = OK
       /\ Len(Gets(data_sink, index_sink, o.reader, k, 0).dst) = 2
       /\ \E i \in KindBlocks(data_sink, "data") :
            \E gf \in {Gets(Faulty(data_sink, i, "IOError"), index_sink, o.reader, k, 0)} :
              gf.status = "IOError" /\ Len(gf.dst) = 1
       /\ \E i \in KindBlocks(index_sink, "index") :
            \E gf \in {Gets(data_sink, Faulty(index_sink, i, "IOError"), o.reader, k, 0)} :
              gf.status = "IOError" /\ gf.dst = <<>>
       /\ \E i \in KindBlocks(index_sink, "filter") :
            \E gf \in {Gets(data_sink, Faulty(index_sink, i, "IOError"), o.reader, k, 0)} :
              gf.status = OK /\ Len(gf.dst) = 2 /\ Range(gf.dst) \cap ValuesOfFilter(i) # {}

\* --------------------------------------------------------------------- C17
\* Every state of the model is a state with mu released: the foreground
\* calls and the parts of the compaction that hold mu are single steps.
\* C17: a compaction is scheduled or running exactly when imm_buf is not
\* NULL, has_bg_compaction says so, and mem_buf and imm_buf each refer to one
\* of the two buffers buf0 and buf1.
C17_CompactionHasBuffer ==
  /\ logger.has_bg_compaction => logger.imm_buf # NULL
  /\ logger.imm_buf # NULL => logger.has_bg_compaction /\ bg.pc # "idle"
  /\ logger.has_bg_compaction <=> bg.pc # "idle"
  /\ logger.mem_buf \in DOMAIN buf
  /\ logger.imm_buf \in DOMAIN buf \cup {NULL}

\* The buffers have been swapped twice: the compaction runs on buf1 while
\* buf0 takes the entries.
C17_Witness ==
  /\ logger.has_bg_compaction /\ bg.pc = "compact"
  /\ logger.imm_buf = "buf1" /\ logger.mem_buf = "buf0"
  /\ buf["buf0"].entries # <<>>

\* --------------------------------------------------------------------- C18
\* The step the compaction thread takes between mu_->Unlock() and
\* mu_->Lock() in CompactWriteBuffer.
WithoutMu == bg.pc = "compact" /\ bg'.pc = "lock"

\* C18: what the foreground thread reads or writes in Add, MakeEpoch, Finish,
\* Wait and Prepare (the logger's buffer pointers and flags, the buffer
\* mem_buf refers to and the status of the table logger) is not written by
\* the compaction thread while it does not hold mu.
C18_ProtectedByMu ==
  [][WithoutMu => /\ logger' = logger
                  /\ buf'[logger.mem_buf] = buf[logger.mem_buf]
                  /\ table_logger'.status = table_logger.status]_vars

\* --------------------------------------------------------------------- C19
\* A step of the foreground thread: the compaction thread's position stays,
\* or the step dispatches BGWork.
ForegroundStep == bg'.pc = bg.pc \/ bg.pc = "idle"

\* C19: mem_buf and imm_buf never refer to the same buffer; the foreground
\* thread leaves the buffer imm_buf refers to as it is; and mem_buf changes
\* only while imm_buf is NULL, to a buffer that is empty and not finished.
C19_BufferHandover ==
  /\ [](logger.mem_buf # logger.imm_buf)
  /\ [][(ForegroundStep /\ logger.imm_buf # NULL)
          => /\ buf'[logger.imm_buf] = buf[logger.imm_buf]
             /\ logger'.imm_buf = logger.imm_buf
             /\ logger'.mem_buf = logger.mem_buf]_vars
  /\ [][logger'.mem_buf # logger.mem_buf
          => /\ logger.imm_buf = NULL
             /\ logger'.imm_buf = logger.mem_buf
             /\ buf[logger'.mem_buf] = WriteBufferReset]_vars

\* A swap has taken place while the other buffer was empty again after a
\* compaction: the full buffer buf1 waits for the compaction and an Add has
\* stored its entry in buf0.
C19_Witness ==
  /\ logger.imm_buf = "buf1" /\ logger.mem_buf = "buf0"
  /\ Len(buf["buf1"].entries) = 2 /\ Len(buf["buf0"].entries) = 1
  /\ bg.pc = "scheduled" /\ fg.pc = "idle"

\* --------------------------------------------------------------------- C20
\* C20: whenever Ltell or Lwrite executes on a sink configured with a mutex,
\* the calling thread holds that mutex, the calls TableLogger::Commit,
\* EndTable and Finish issue from the compaction thread on sinks that share
\* the logger's mu included.
C20_SinkMutexHeld == ~hist.unheld

\* --------------------------------------------------------------------- C21
\* C21: the logical offset of a sink (Ltell) never decreases: an Lwrite that
\* returns OK raises it by exactly the size of the data, and an Lwrite that
\* fails, Ltell, Lsync, Lock, Unlock (and Lclose) leave it where it is; Ltell
\* returns it, and it is the number of bytes of the log.
C21_OffsetMonotone ==
  /\ [](/\ Ltell(data_sink) = SumLen(data_sink.log)
        /\ fg.tell = Ltell(data_sink))
  /\ [][~aborted' =>
          /\ Ltell(data_sink') >= Ltell(data_sink)
          /\ Ltell(data_sink')
               = IF fg'.op = "Lwrite" /\ fg'.ret = OK
                   THEN Ltell(data_sink) + fg'.size ELSE Ltell(data_sink)
          /\ (fg'.op = "Lwrite" /\ fg'.ret = OK) \/ data_sink'.log = data_sink.log]_vars

\* After two writes that went through, a third has met an I/O error and
\* has left the offset at the bytes of the first two.
C21_Witness ==
  /\ fg.op = "Lwrite" /\ fg.ret = "IOError" /\ fg.size > 0
  /\ Len(data_sink.log) = 2 /\ data_sink.lwrites = 3
  /\ Ltell(data_sink) = 2 * MaxWrite

\* --------------------------------------------------------------------- C22
\* Close has returned, and it has closed the log behind the sink.
Closed(sink) == ~sink.file /\ fg.pc # "CloseIndex"

\* The step is the body of a compaction.
CompactionRuns == bg.pc = "compact" /\ bg'.pc = "lock"

\* Lwrite on the sink, were its file closed, returns AssertionFailed and
\* leaves the log and the offset as they are.
ClosedLwriteRejected(sink) ==
  \A size \in 0..MaxWrite : \A io_error \in BOOLEAN :
    LET closed == [sink EXCEPT !.file = FALSE]
        r == Lwrite(closed,
                    <<[len |-> size, size |-> size, kind |-> "bytes", body |-> <<>>]>>,
                    io_error)
    IN /\ r.status = "AssertionFailed"
       /\ r.sink.log = closed.log /\ Ltell(r.sink) = Ltell(closed)
       /\ ~r.sink.file

\* C22 (as amended): Lwrite on a closed sink returns AssertionFailed without
\* appending and without moving the offset; a compaction that runs after
\* Close has closed both logs, starts with the table logger OK and has
\* something to write (entries of the buffer, or the tail of Finish) leaves
\* the table logger AssertionFailed and both logs as they were.
C22_ClosedLogRejects ==
  /\ [](ClosedLwriteRejected(data_sink) /\ ClosedLwriteRejected(index_sink))
  /\ [][(/\ CompactionRuns
         /\ Closed(data_sink) /\ Closed(index_sink)
         /\ table_logger.status = OK
         /\ (bg.iter # <<>> \/ bg.is_finish))
        => /\ table_logger'.status = "AssertionFailed"
           /\ data_sink'.log = data_sink.log /\ index_sink'.log = index_sink.log
           /\ Ltell(data_sink') = Ltell(data_sink)
           /\ Ltell(index_sink') = Ltell(index_sink)]_vars

\* A compaction of a buffer with entries has run on closed logs and has left
\* the table logger AssertionFailed.
C22_Witness ==
  /\ bg.pc = "lock" /\ bg.iter # <<>>
  /\ Closed(data_sink) /\ Closed(index_sink)
  /\ table_logger.status = "AssertionFailed"
  /\ data_sink.lwrites > 0

\* C22 (as stated): every compaction that runs after Close leaves the table
\* logger AssertionFailed.
C22_AsStated ==
  [][(CompactionRuns /\ Closed(data_sink))
       => table_logger'.status = "AssertionFailed"]_vars

\* --------------------------------------------------------------------- C23
\* The sorted entries hold a key twice in a row.
HasDuplicate(iter) == \E i \in 1..(Len(iter) - 1) : iter[i].key = iter[i + 1].key

\* C23: with unique_keys, a compaction that hands the table logger a key
\* equal to the one before it ends with the table logger AssertionFailed:
\* the process goes on, and the key is not written a second time.
C23_DuplicateRejected ==
  [][(/\ bg.pc = "compact" /\ (bg'.pc = "lock" \/ aborted')
      /\ options.unique_keys /\ table_logger.status = OK
      /\ HasDuplicate(bg.iter))
     => /\ ~aborted'
        /\ table_logger'.status = "AssertionFailed"
        /\ ~HasDuplicate(SubSeq(hist'.handed, Len(hist.handed) + 1, Len(hist'.handed)))]_vars

\* --------------------------------------------------------------------- C24
\* The entries of the table recorded as entry m of the meta-block.
EntriesOf(m) ==
  { h \in Handed :
      table_logger.meta_block[m].key = EpochKey(hist.handed[h].epoch, hist.handed[h].table) }

KeysOf(m) == { hist.handed[h].key : h \in EntriesOf(m) }

\* What PlfsIoReader::Get(key, TableHandle) returns for key q on the table
\* of entry m.
TableLookup(m, q) ==
  TableGet(data_sink, index_sink, q, table_logger.meta_block[m].handle,
           [status |-> OK, dst |-> <<>>, found |-> FALSE, eok |-> FALSE])

\* C24: for every table handle of the meta-block, smallest_key is the
\* smallest key of the table and largest_key the short successor of its
\* largest, so that every key of the table (its largest key too) lies
\* between them and passes the range check of a lookup, and a lookup of a
\* key above the largest key of the table finds nothing in the table.
C24_KeyRange ==
  ~hist.assert_failed =>
    \A m \in 1..Len(table_logger.meta_block) :
      LET handle == table_logger.meta_block[m].handle
      IN /\ KeysOf(m) # {}
         /\ \A k \in KeysOf(m) :
              /\ handle.smallest_key <= k /\ k <= handle.largest_key
              /\ ~(k < handle.smallest_key \/ k > handle.largest_key)
         /\ handle.smallest_key \in KeysOf(m)
         /\ \E top \in KeysOf(m) :
              /\ \A k \in KeysOf(m) : k <= top
              /\ handle.largest_key = FindShortSuccessor(top)
              /\ \A q \in QueryKeys :
                   q > top => /\ TableLookup(m, q).dst = <<>>
                              /\ ~TableLookup(m, q).found

\* Two tables are recorded; one holds a smaller and a larger key, and a
\* lookup of the short successor of the larger one passes the range check of
\* that table (no filter stands in the way) and finds nothing.
C24_Witness ==
  /\ ~hist.assert_failed /\ Len(table_logger.meta_block) >= 2
  /\ \E m \in 1..Len(table_logger.meta_block) :
       /\ KeysOf(m) = TableAddKeys
       /\ table_logger.meta_block[m].handle.filter_size = 0
       /\ table_logger.meta_block[m].handle.largest_key = MaxKey + 2
       /\ TableLookup(m, MaxKey + 1).found
       /\ ~TableLookup(m, MaxKey + 2).found

\* --------------------------------------------------------------------- C25
\* The index blocks of the index log, each the index block of one table.
IndexBlocks == { i \in 1..Len(index_sink.log) : index_sink.log[i].kind = "index" }

\* The entries of the data block an index entry was added for: the handle
\* encoded last into the entry's value is the handle of that block.
BlockOfEntry(e) ==
  LET handle == e.value[Len(e.value)]
      at == CHOOSE p \in 1..Len(data_sink.log) :
              data_sink.log[p].off = handle.offset /\ data_sink.log[p].kind = "data"
  IN data_sink.log[at].body

\* C25 (as amended): within every table the separator keys of consecutive
\* index-block entries never decrease; two consecutive entries have the same
\* separator only without unique_keys and only when the data block of the
\* first ends with the key the data block of the second begins with, and
\* that key is the separator.
C25_SeparatorsNondecreasing ==
  ~hist.assert_failed =>
    \A i \in IndexBlocks :
      \A j \in 1..(Len(index_sink.log[i].body) - 1) :
        LET a == index_sink.log[i].body[j]
            b == index_sink.log[i].body[j + 1]
        IN /\ a.key <= b.key
           /\ a.key = b.key =>
                /\ ~options.unique_keys
                /\ BlockOfEntry(a)[Len(BlockOfEntry(a))].key = a.key
                /\ BlockOfEntry(b)[1].key = a.key

\* A table of three data blocks has been written whose first two blocks
\* hold the same key: the first two separators are that key and the third
\* is above it.
C25_Witness ==
  /\ ~hist.assert_failed
  /\ \E i \in IndexBlocks :
       /\ Len(index_sink.log[i].body) = 3
       /\ index_sink.log[i].body[1].key = index_sink.log[i].body[2].key
       /\ index_sink.log[i].body[2].key < index_sink.log[i].body[3].key

\* C25 (as stated): within every table the separator keys of consecutive
\* index-block entries are strictly increasing.
C25_StrictlyIncreasing ==
  ~hist.assert_failed =>
    \A i \in IndexBlocks :
      \A j \in 1..(Len(index_sink.log[i].body) - 1) :
        index_sink.log[i].body[j].key < index_sink.log[i].body[j + 1].key

\* --------------------------------------------------------------------- C26
\* The last foreground call was Wait or the destructor.
WaitOrDestructor == fg.op \in {"Wait", "~PlfsIoLogger"}

\* C26: Wait and the destructor have returned only where has_bg_compaction
\* is false, imm_buf is NULL and no compaction is scheduled or running; while
\* they wait a compaction is scheduled or running or has signalled bg_cv; the
\* end of that compaction signals them, and once signalled they return (Wait
\* with OK) without waiting again.
C26_WaitReturnsQuiet ==
  /\ []((WaitOrDestructor /\ fg.pc \in {"idle", "destroyed"})
          => /\ ~logger.has_bg_compaction
             /\ logger.imm_buf = NULL
             /\ bg.pc = "idle")
  /\ []((WaitOrDestructor /\ fg.pc = "Wait") => (fg.signalled \/ bg.pc # "idle"))
  /\ [][(WaitOrDestructor /\ fg.pc = "Wait")
          => /\ (bg.pc = "lock" /\ bg'.pc # "lock") => fg'.signalled
             /\ (fg.signalled /\ fg' # fg)
                  => /\ fg'.pc = IF fg.op = "Wait" THEN "idle" ELSE "destroyed"
                     /\ fg'.op = fg.op
                     /\ fg'.ret = OK]_vars

\* The destructor waits, and the compaction of a buffer with entries has
\* ended and has signalled it.
C26_Witness ==
  /\ fg.op = "~PlfsIoLogger" /\ fg.pc = "Wait" /\ fg.signalled
  /\ ~logger.has_bg_compaction
  /\ hist.handed # <<>>

\* --------------------------------------------------------------------- C27
\* What MaybeScheduleCompaction does to the logger were its flags
\* has_bg_compaction = running and imm_buf = imm.
Scheduling(running, imm) ==
  MaybeScheduleCompaction(
    CallState([logger EXCEPT !.has_bg_compaction = running, !.imm_buf = imm],
              FALSE, FALSE))

\* C27: MaybeScheduleCompaction dispatches BGWork exactly when
\* has_bg_compaction is false and imm_buf is not NULL, and then once; a
\* foreground call dispatches at most one BGWork and only while no compaction
\* is scheduled or running, and the end of a compaction dispatches none, so
\* that a second BGWork is never dispatched while one is scheduled or runs.
C27_OneCompaction ==
  /\ [](\A running \in BOOLEAN : \A imm \in DOMAIN buf \cup {NULL} :
          /\ Scheduling(running, imm).scheduled
               = IF ~running /\ imm # NULL THEN 1 ELSE 0
          /\ Scheduling(running, imm).logger.has_bg_compaction
               = (running \/ imm # NULL))
  /\ [](fg.pc = "idle" =>
          /\ AddCall(logger).scheduled <= 1
          /\ MakeEpochCall(logger, FALSE).scheduled <= 1
          /\ FinishCall(logger, FALSE).scheduled <= 1
          /\ bg.pc # "idle" =>
               /\ AddCall(logger).scheduled = 0
               /\ MakeEpochCall(logger, FALSE).scheduled = 0
               /\ FinishCall(logger, FALSE).scheduled = 0)
  /\ []((OnBgCv(fg.pc) /\ bg.pc # "idle") => Continue(logger).scheduled = 0)
  /\ [][/\ bg'.pc = "scheduled" => (bg.pc \in {"idle", "scheduled"}
                                     /\ logger'.has_bg_compaction
                                     /\ logger'.imm_buf # NULL)
        /\ (bg.pc = "idle" /\ bg'.pc = "scheduled") => ~logger.has_bg_compaction
        /\ bg.pc = "lock" => bg'.pc \in {"lock", "idle"}]_vars

\* A compaction has handed entries over and has ended, and an Add has
\* swapped the buffers again and has dispatched the next compaction.
C27_Witness ==
  /\ bg.pc = "scheduled" /\ logger.has_bg_compaction
  /\ hist.handed # <<>>
  /\ fg.op = "Add" /\ fg.pc = "idle" /\ fg.ret = OK

\* --------------------------------------------------------------------- C28
\* The step is the return with OK of the blocking call op(dry_run = false).
BlockingReturnsOK(op) ==
  /\ ~options.non_blocking
  /\ fg.pc # "idle" \/ fg.op # op
  /\ fg'.pc = "idle" /\ fg'.op = op /\ ~fg'.dry_run /\ fg'.ret = OK

\* EndTable has ended the table of the table logger and EndEpoch the epoch.
TableAndEpochEnded ==
  /\ table_logger.data_block = <<>> /\ table_logger.buffer_store = <<>>
  /\ ~table_logger.pending_index_entry /\ ~table_logger.pending_meta_entry
  /\ table_logger.last_key = 0 /\ table_logger.num_tables = 0

\* C28: a blocking MakeEpoch(false) returns OK only out of its wait for
\* pending_epoch_flush, after the compaction of the buffer it swapped out
\* has run its body with is_epoch_flush (EndTable, EndEpoch), has cleared
\* pending_epoch_flush and has ended: at the return pending_epoch_flush is
\* false, imm_buf is NULL, both buffers are empty and, the table logger
\* being OK, its table and its epoch are ended.  A blocking Finish(false)
\* likewise returns OK only out of its wait for pending_epoch_flush and
\* pending_finish, with both false, imm_buf NULL and TableLogger::Finish run.
\* A pending flag is cleared only by the call that set it, when its Prepare
\* fails, or at the end of a compaction that ran with it.
C28_ReturnAfterCompaction ==
  [][/\ BlockingReturnsOK("MakeEpoch") =>
          /\ fg.pc = "MakeEpochPending" /\ fg.signalled
          /\ ~logger'.pending_epoch_flush /\ logger'.imm_buf = NULL
          /\ bg'.pc = "idle" /\ ~logger'.has_bg_compaction
          /\ \A b \in DOMAIN buf : buf'[b].entries = <<>>
          /\ table_logger'.status = OK => TableAndEpochEnded'
     /\ BlockingReturnsOK("Finish") =>
          /\ fg.pc = "FinishPending" /\ fg.signalled
          /\ ~logger'.pending_epoch_flush /\ ~logger'.pending_finish
          /\ logger'.imm_buf = NULL
          /\ bg'.pc = "idle" /\ ~logger'.has_bg_compaction
          /\ \A b \in DOMAIN buf : buf'[b].entries = <<>>
          /\ table_logger'.finished
     /\ (logger.pending_epoch_flush /\ ~logger'.pending_epoch_flush) =>
          \/ bg.pc = "lock" /\ bg.is_epoch_flush /\ bg'.pc = "idle"
          \/ fg'.pc = "idle" /\ fg'.ret # OK /\ fg'.op \in {"MakeEpoch", "Finish"}
     /\ (logger.pending_finish /\ ~logger'.pending_finish) =>
          \/ bg.pc = "lock" /\ bg.is_finish /\ bg'.pc = "idle"
          \/ fg'.pc = "idle" /\ fg'.ret # OK /\ fg'.op = "Finish"]_vars

\* A blocking MakeEpoch has returned OK after the compaction of a buffer
\* with entries, which has sealed the first epoch of the table logger.
C28_Witness ==
  /\ ~options.non_blocking /\ Returns("MakeEpoch", FALSE, OK)
  /\ hist.handed # <<>> /\ table_logger.num_epochs = 1
  /\ table_logger.status = OK /\ TableAndEpochEnded
  /\ ~logger.pending_epoch_flush /\ logger.imm_buf = NULL

\* --------------------------------------------------------------------- C29
\* C29: in blocking mode, when every dispatched BGWork runs and every
\* compaction comes to its end, every call of Add, MakeEpoch, Finish and
\* Wait that waits on bg_cv returns in the end (unless an assert ends the
\* process), and whenever a call waits, a compaction is dispatched or
\* running or has signalled bg_cv since the call began to wait.
C29_CallsReturn ==
  /\ [](OnBgCv(fg.pc) => (fg.signalled \/ bg.pc # "idle"))
  /\ (OnBgCv(fg.pc) /\ fg.op \in {"Add", "MakeEpoch", "Finish", "Wait"})
       ~> (fg.pc = "idle" \/ aborted)
\* --------------------------------------------------------------------- C30
\* The dry run r of a call on the logger: it has returned, it has left the
\* logger's flags and buffer pointers alone, it has dispatched nothing, and
\* its status is BufferFull when a flush or a finish is pending or imm_buf is
\* not NULL, and the status of the table logger otherwise.
StatusCheckOnly(r) ==
  /\ r.at = "idle"
  /\ r.logger = logger
  /\ r.swaps = 0 /\ r.scheduled = 0
  /\ r.status = IF \/ logger.pending_epoch_flush \/ logger.pending_finish
                   \/ logger.imm_buf # NULL
                  THEN "BufferFull" ELSE table_logger.status

\* C30: MakeEpoch(dry_run = true) and Finish(dry_run = true) set no pending
\* flag, swap no buffer, dispatch no compaction and do not wait; they return
\* BufferFull when a flush or a finish is pending or imm_buf is not NULL and
\* the status of the table logger otherwise; the step of such a call changes
\* nothing but the record of the call.
C30_DryRun ==
  /\ [](fg.pc = "idle" =>
          /\ StatusCheckOnly(MakeEpochCall(logger, TRUE))
          /\ StatusCheckOnly(FinishCall(logger, TRUE)))
  /\ [][(fg' # fg /\ fg'.dry_run) =>
          /\ fg'.pc = "idle" /\ fg'.op \in {"MakeEpoch", "Finish"}
          /\ UNCHANGED <<bloom, options, logger, buf, table_logger, data_sink,
                         index_sink, bg, hist, aborted>>]_vars

\* In blocking mode a dry run of MakeEpoch has returned BufferFull while
\* the compaction of the other buffer runs, and the buffers are as they were.
C30_Witness ==
  /\ ~options.non_blocking /\ Returns("MakeEpoch", TRUE, "BufferFull")
  /\ logger.imm_buf # NULL /\ bg.pc = "compact"
  /\ ~logger.pending_epoch_flush

\* --------------------------------------------------------------------- C31
\* The step is the return of MakeEpoch(false) or Finish(false) with the
\* status Prepare returned, which is not OK: the call has passed its first
\* loop (BufferFull is returned there, or by Prepare in non-blocking mode
\* when imm_buf is not NULL, which the first loop excludes where the buffer
\* swapped in has room, that is, where tb_bytes is not 0).
PrepareFailed ==
  /\ fg' # fg /\ fg'.pc = "idle" /\ fg'.op \in {"MakeEpoch", "Finish"}
  /\ ~fg'.dry_run
  /\ fg'.ret \notin {OK, "BufferFull"}

\* C31: when MakeEpoch or Finish returns the failure of Prepare, the pending
\* flags are false at the return and no buffer has been swapped out; so with
\* no compaction scheduled or running no flag is set, and the next MakeEpoch
\* or Finish neither waits in its first loop nor returns BufferFull.
C31_FailedAttemptClearsFlags ==
  /\ [][PrepareFailed =>
          /\ ~logger'.pending_epoch_flush /\ ~logger'.pending_finish
          /\ logger'.imm_buf = NULL
          /\ fg'.ret = table_logger.status]_vars
  /\ []((fg.pc = "idle" /\ Quiet) =>
          /\ ~logger.pending_epoch_flush /\ ~logger.pending_finish
          /\ MakeEpochCall(logger, FALSE).status # "BufferFull"
          /\ MakeEpochCall(logger, FALSE).at # "MakeEpochBusy"
          /\ FinishCall(logger, FALSE).status # "BufferFull"
          /\ FinishCall(logger, FALSE).at # "FinishBusy")

\* After a compaction that met an I/O error, Finish has returned that error
\* and has left no flag set.
C31_Witness ==
  /\ Returns("Finish", FALSE, "IOError") /\ Quiet
  /\ ~logger.pending_epoch_flush /\ ~logger.pending_finish
  /\ table_logger.status = "IOError" /\ ~table_logger.finished

\* --------------------------------------------------------------------- C32
\* The index entries es of one table, as the reader decodes them (the first
\* BlockHandle of each value): each is the handle Commit computed for the
\* entry (base + the block's offset in the buffer, the block's payload
\* size), a data block of that size lies at that offset of the data log,
\* and the blocks follow each other in the order of the entries.
DecodesToItsBlock(es) ==
  \A j \in 1..Len(es) :
    /\ HandleDecodeFrom(es[j].value) = es[j].value[Len(es[j].value)]
    /\ \E p \in 1..Len(data_sink.log) :
         /\ data_sink.log[p].kind = "data"
         /\ data_sink.log[p].off = HandleDecodeFrom(es[j].value).offset
         /\ data_sink.log[p].size = HandleDecodeFrom(es[j].value).size
    /\ j > 1 => HandleDecodeFrom(es[j - 1].value).offset
                  < HandleDecodeFrom(es[j].value).offset

\* C32: the entries Commit has inserted into the index block decode, as the
\* reader decodes them, to the offset and the size of the data blocks they
\* were inserted for, in order, however many blocks one Commit covers.
C32_CommitHandles ==
  ~hist.assert_failed =>
    /\ DecodesToItsBlock(table_logger.index_block)
    /\ \A i \in IndexBlocks : DecodesToItsBlock(index_sink.log[i].body)

\* --------------------------------------------------------------------- C33
\* The blocks of one kind that start at offset off of the index log.
IndexLogAt(off, kind) ==
  SelectSeq(index_sink.log, LAMBDA p : p.off = off /\ p.kind = kind)

\* C33 (as amended): for a table whose index block is written at offset I
\* of the index log with payload size S, the table handle records I and S
\* and filter_offset = I + S + kBlockTrailerSize, the offset right behind the
\* trailer of the index block, whether a filter is given or not; without a
\* filter filter_size is 0 and no filter block starts there; with a filter
\* the filter block starts there and filter_size is its length with the k
\* byte and without the trailer.
C33_FilterHandle ==
  \A m \in 1..Len(table_logger.meta_block) :
    LET h == table_logger.meta_block[m].handle
    IN /\ Len(IndexLogAt(h.offset, "index")) = 1
       /\ IndexLogAt(h.offset, "index")[1].size = h.size
       /\ IndexLogAt(h.offset, "index")[1].len = h.size + kBlockTrailerSize
       /\ h.filter_offset = h.offset + h.size + kBlockTrailerSize
       /\ (h.filter_size = 0) <=> (IndexLogAt(h.filter_offset, "filter") = <<>>)
       /\ (h.filter_size # 0) =>
            /\ Len(IndexLogAt(h.filter_offset, "filter")) = 1
            /\ IndexLogAt(h.filter_offset, "filter")[1].size = h.filter_size
            /\ IndexLogAt(h.filter_offset, "filter")[1].body.len = h.filter_size
            /\ IndexLogAt(h.filter_offset, "filter")[1].len
                 = h.filter_size + kBlockTrailerSize

\* The meta-block records a table without filter and, behind it, a table
\* with a filter.
C33_Witness ==
  /\ Len(table_logger.meta_block) >= 2
  /\ table_logger.meta_block[1].handle.filter_size = 0
  /\ table_logger.meta_block[2].handle.filter_size # 0
  /\ table_logger.meta_block[2].handle.offset
       = table_logger.meta_block[1].handle.filter_offset

\* C33 (as stated): without a filter the table handle records
\* filter_offset = I + S and filter_size = 0.
C33_AsStated ==
  \A m \in 1..Len(table_logger.meta_block) :
    table_logger.meta_block[m].handle.filter_size = 0 =>
      table_logger.meta_block[m].handle.filter_offset
        = table_logger.meta_block[m].handle.offset + table_logger.meta_block[m].handle.size

\* --------------------------------------------------------------------- C34
\* The bits BloomKeyMayMatch tests for a key in the contents of a filter.
TestedBits(key, input) ==
  BloomProbes(BloomHash(key), RotateRight17(BloomHash(key)),
              (input.len - 1) * 8, input.k)

\* C34 (as amended): the number of probes k of a filter is bits_per_key *
\* 0.69 rounded down and then brought into 1..30 (bits_per_key = 10 gives
\* k = 6); Finish() hands out that k as the final byte, and the bits set in
\* the filter are exactly the bits BloomKeyMayMatch tests, for that k, for
\* the keys added.
C34_Probes ==
  bloom # <<>> =>
    /\ bloom.block.k \in 1..30
    /\ \/ bloom.block.k * 100 <= bloom.bits_per_key * 69
          /\ bloom.bits_per_key * 69 < (bloom.block.k + 1) * 100
       \/ bloom.block.k = 1 /\ bloom.bits_per_key * 69 < 100
       \/ bloom.block.k = 30 /\ bloom.bits_per_key * 69 >= 3000
    /\ bloom.contents # <<>> =>
         /\ Head(bloom.contents).k = bloom.block.k
         /\ Head(bloom.contents).space
              = UNION {TestedBits(key, Head(bloom.contents)) : key \in bloom.added}
         /\ bloom.added \cap bloom.asked \subseteq bloom.matched

\* A finished filter built with bits_per_key = 10 holds k = 6; it was asked
\* about a key it holds and about a key it does not hold, which it rejects.
C34_Witness ==
  /\ bloom # <<>>
  /\ bloom.bits_per_key = 10
  /\ bloom.contents # <<>>
  /\ Head(bloom.contents).k = 6
  /\ bloom.added \cap bloom.asked # {}
  /\ bloom.asked \ bloom.matched # {}

\* C34 (as stated): k equals max(1, min(30, round(bits_per_key * ln 2))),
\* with ln 2 taken as 0.693147.
C34_AsStated ==
  bloom # <<>> =>
    bloom.block.k
      = Max(1, Min(30, (bloom.bits_per_key * 693147 + 500000) \div 1000000))

\* --------------------------------------------------------------------- C35
\* C35: bf_bits is 0 exactly when bf_bits_per_key is 0; otherwise it is
\* max(64, entries_per_table * bf_bits_per_key) rounded up to a multiple of
\* 8, also when entries_per_table is 0; and a table gets a filter block
\* exactly when bf_bits_per_key is not 0.
C35_FilterSizing ==
  /\ (bf_bits(options) = 0) <=> (options.bf_bits_per_key = 0)
  /\ options.bf_bits_per_key # 0 =>
       bf_bits(options)
         = ((Max(64, entries_per_tb(options) * options.bf_bits_per_key) + 7) \div 8) * 8
  /\ \A m \in 1..Len(table_logger.meta_block) :
       (table_logger.meta_block[m].handle.filter_size # 0)
         <=> (options.bf_bits_per_key # 0)

\* --------------------------------------------------------------------- C36
\* After the compaction the meta-block records a table for the epoch that
\* was open when the compaction began.
OpenEpochHasTable ==
  \E i \in 1..Len(table_logger'.meta_block) :
    table_logger'.meta_block[i].key[1] = table_logger.num_epochs

\* The compaction has written a footer.
FooterWritten == Len(Footers') > Len(Footers)

\* C36 (as amended): a compaction carrying is_epoch_flush and is_finish
\* advances num_epochs by at most one, by one when it writes the footer and
\* the final epoch has a table, and the footer holds the advanced num_epochs;
\* a compaction carrying only is_epoch_flush that leaves the table logger OK
\* advances num_epochs by one if the epoch has at least one table and leaves
\* it otherwise; one that leaves the table logger with an error status leaves
\* num_epochs as it is.
C36_EpochAdvance ==
  [][WithoutMu /\ bg.is_epoch_flush =>
       /\ table_logger'.num_epochs
            \in {table_logger.num_epochs, table_logger.num_epochs + 1}
       /\ bg.is_finish /\ FooterWritten =>
            /\ Footers'[Len(Footers')].body.num_epoches = table_logger'.num_epochs
            /\ table_logger'.num_epochs
                 = table_logger.num_epochs + (IF OpenEpochHasTable THEN 1 ELSE 0)
       /\ ~bg.is_finish /\ table_logger'.status = OK =>
            (table_logger'.num_epochs = table_logger.num_epochs + 1 <=> OpenEpochHasTable)
       /\ ~bg.is_finish /\ table_logger'.status # OK =>
            table_logger'.num_epochs = table_logger.num_epochs]_vars

\* A compaction with is_epoch_flush and is_finish has run after an earlier
\* epoch was sealed: its footer counts two epochs, each with a table.
C36_Witness ==
  /\ bg.pc = "lock" /\ bg.is_epoch_flush /\ bg.is_finish
  /\ ~hist.assert_failed
  /\ Len(Footers) = 1
  /\ Footers[1].body.num_epoches = 2
  /\ table_logger.num_epochs = 2
  /\ TablesOfEpoch(0) >= 1 /\ TablesOfEpoch(1) >= 1

\* C36 (as stated): a compaction carrying only is_epoch_flush advances
\* num_epochs by exactly one if and only if the epoch has at least one table.
C36_AsStated ==
  [][WithoutMu /\ bg.is_epoch_flush /\ ~bg.is_finish =>
       (table_logger'.num_epochs = table_logger.num_epochs + 1 <=> OpenEpochHasTable)]_vars

\* --------------------------------------------------------------------- C37
\* The keys TableLogger::Add takes without failing its assertions on the
\* order of the keys.
KeyInOrder(key) ==
  \/ key > table_logger.last_key
  \/ ~options.unique_keys /\ key = table_logger.last_key

\* C37: while the table logger is OK and not finished, no call fails an
\* assertion of Commit, Flush or EndTable: whatever is called next (Add of a
\* key in order, Flush, EndTable without or with a filter, EndEpoch, Finish)
\* and whichever of its writes fails, every Commit it reaches finds
\* num_uncommitted_data = num_uncommitted_index and decodes
\* num_uncommitted_index entries, every Flush of a block finds no pending
\* index entry and every recording of a table handle finds no pending meta
\* entry; and a pending index entry implies an empty data block.
C37_AssertionsHold ==
  table_logger.status = OK /\ ~table_logger.finished =>
    /\ table_logger.pending_index_entry => table_logger.data_block = <<>>
    /\ Len(table_logger.uncommitted_indexes) = table_logger.num_uncommitted_index
    /\ ~table_logger.pending_meta_entry
    /\ ~Flush(World(0)).broke
    /\ \A fuse \in 0..MaxLwrites :
         /\ \A key \in 1..(MaxKey + 1) :
              KeyInOrder(key) => ~TableLoggerAdd(World(fuse), key, 0).broke
         /\ ~EndTable(World(fuse), <<>>).broke
         /\ ~EndTable(World(fuse),
                      <<NewBloomBlock(options.bf_bits_per_key, bf_bytes(options))>>).broke
         /\ ~EndEpoch(World(fuse)).broke
         /\ ~TableLoggerFinish(World(fuse)).broke

\* A table has been recorded, and of the next table two data blocks are
\* flushed and not committed, the index entry of the second one pending.
C37_Witness ==
  /\ table_logger.status = OK /\ ~table_logger.finished
  /\ Len(table_logger.meta_block) >= 1
  /\ table_logger.pending_index_entry
  /\ table_logger.num_uncommitted_data = 2
  /\ table_logger.num_uncommitted_index = 1

\* --------------------------------------------------------------------- C38
\* The meta-block entries the loop of PlfsIoReader::Get(key, epoch) comes
\* by: it seeks EpochKey(epoch, table) for table = 0, 1, 2, ... and stops at
\* the first key that is missing.
RECURSIVE WalkedTables(_, _, _)
WalkedTables(entries, epoch, table) ==
  LET i == SeekEpoch(entries, EpochKey(epoch, table))
  IN IF i > Len(entries) \/ entries[i].key # EpochKey(epoch, table) THEN {}
     ELSE {i} \cup WalkedTables(entries, epoch, table + 1)

\* C38: the keys of the meta-block are strictly increasing as pairs (epoch,
\* table) and gap-free: the first is (0, 0), and each further one is the
\* next table of the same epoch or table 0 of the next epoch; every epoch
\* below num_epochs has a table, none above has one, and the tables of the
\* open epoch are the num_tables counted, so that tables and epochs left
\* empty take no number; hence the reader's walk over an epoch comes by
\* every table of it.
C38_MetaKeysGapFree ==
  LET mb == table_logger.meta_block
  IN /\ \A m \in 1..Len(mb) :
          IF m = 1 THEN mb[m].key = EpochKey(0, 0)
          ELSE /\ EpochKeyLess(mb[m - 1].key, mb[m].key)
               /\ \/ mb[m].key = EpochKey(mb[m - 1].key[1], mb[m - 1].key[2] + 1)
                  \/ mb[m].key = EpochKey(mb[m - 1].key[1] + 1, 0)
     /\ \A m \in 1..Len(mb) : mb[m].key[1] <= table_logger.num_epochs
     /\ \A e \in 0..(table_logger.num_epochs - 1) : TablesOfEpoch(e) >= 1
     /\ TablesOfEpoch(table_logger.num_epochs) = table_logger.num_tables
     /\ \A e \in 0..kMaxEpoches :
          WalkedTables(mb, e, 0) = { m \in 1..Len(mb) : mb[m].key[1] = e }

\* Two tables of epoch 0 and one of epoch 1 are recorded, and no table is
\* being built.
C38_Witness ==
  /\ Len(table_logger.meta_block) = 3
  /\ table_logger.meta_block[2].key = EpochKey(0, 1)
  /\ table_logger.meta_block[3].key = EpochKey(1, 0)
  /\ table_logger.num_epochs = 1 /\ table_logger.num_tables = 1
  /\ table_logger.last_key = 0

\* --------------------------------------------------------------------- C39
\* C39: in every state with mu released, pending_epoch_flush implies an
\* imm_buf that carries imm_buf_is_epoch_flush, pending_finish implies
\* imm_buf_is_finish, and imm_buf_is_epoch_flush implies pending_epoch_flush.
C39_FlagsFollowImmBuf ==
  /\ logger.pending_epoch_flush =>
       logger.imm_buf # NULL /\ logger.imm_buf_is_epoch_flush
  /\ logger.pending_finish => logger.imm_buf_is_finish
  /\ logger.imm_buf_is_epoch_flush => logger.pending_epoch_flush

\* --------------------------------------------------------------------- C40
\* Prepare swaps the buffers in this step: only Prepare assigns mem_buf, and
\* between two swaps of one step it would have to wait for imm_buf.
PrepareSwaps == logger'.mem_buf # logger.mem_buf

\* C40: a step in which Prepare swaps the buffers takes Prepare to its
\* return with OK: the call does not wait in Prepare after the swap (where it
\* would swap once more and schedule one more compaction before it returns),
\* and when the call returns in that step it returns OK; so for every
\* tb_bytes a call of Prepare swaps once and schedules once at most.
C40_OneSwap ==
  [][PrepareSwaps =>
       /\ fg'.pc # "Prepare"
       /\ fg'.pc = "idle" => fg'.ret = OK]_vars

====
